---- MODULE Spec2Model ----
(***************************************************************************)
(* Model of the dollie core: the line differ, the merger and the block     *)
(* parser of diff.ts, and the Generator pipeline that drives them.         *)
(*                                                                         *)
(* A text is a sequence of one-character strings, so that split, slice,    *)
(* endsWith and join are modelled by what they do to the characters.       *)
(***************************************************************************)
EXTENDS Integers, Sequences, FiniteSets, TLC

NL == "\n"
CR == "\r"

\* The value of an omitted (undefined) string argument.
Undefined == <<"undefined">>

\* JavaScript truthiness of a string-or-undefined value.
Truthy(s) == s # Undefined /\ s # <<>>

RECURSIVE Join(_)
\* Array.prototype.join(''): the concatenation of the pieces.
Join(pieces) ==
  IF pieces = <<>> THEN <<>> ELSE Head(pieces) \o Join(Tail(pieces))

\* Index of the first newline of s, 0 when there is none.
FirstNL(s) ==
  IF \E i \in 1..Len(s) : s[i] = NL
  THEN CHOOSE i \in 1..Len(s) : s[i] = NL /\ \A j \in 1..(i - 1) : s[j] # NL
  ELSE 0

RECURSIVE SplitNL(_)
\* String.prototype.split('\n'): the pieces between newlines ("" gives [""]).
SplitNL(s) ==
  LET k == FirstNL(s)
  IN IF k = 0 THEN <<s>>
     ELSE <<SubSeq(s, 1, k - 1)>> \o SplitNL(SubSeq(s, k + 1, Len(s)))

\* The piece before the separator that ends at index k, and the separator: the
\* newline, together with a carriage return right before it.
PieceAndSeparator(s, k) ==
  IF k > 1 /\ s[k - 1] = CR
  THEN <<SubSeq(s, 1, k - 2), <<CR, NL>>>>
  ELSE <<SubSeq(s, 1, k - 1), <<NL>>>>

RECURSIVE SplitKeepNL(_)
\* String.prototype.split(/(\n|\r\n)/): pieces and separators, alternating.
SplitKeepNL(s) ==
  LET k == FirstNL(s)
  IN IF k = 0 THEN <<s>>
     ELSE PieceAndSeparator(s, k) \o SplitKeepNL(SubSeq(s, k + 1, Len(s)))

EndsWithNL(s) == Len(s) > 0 /\ s[Len(s)] = NL

RECURSIVE MergeSeparators(_, _, _)
\* The loop of lineDiff.tokenize: a separator (odd index) is glued to the
\* token before it, a piece (even index) starts a new token.
MergeSeparators(linesAndNewlines, i, retLines) ==
  IF i >= Len(linesAndNewlines) THEN retLines
  ELSE LET line == linesAndNewlines[i + 1]
       IN IF i % 2 = 1
          THEN MergeSeparators(linesAndNewlines, i + 1,
                 [retLines EXCEPT ![Len(retLines)] = @ \o line])
          ELSE MergeSeparators(linesAndNewlines, i + 1, Append(retLines, line))

\* lineDiff.tokenize followed by removeEmpty: the lines of value, each with
\* its newline, the last one without when value does not end with one.
tokenize(value) ==
  LET split == SplitKeepNL(value)
      linesAndNewlines ==
        IF split[Len(split)] = <<>> THEN SubSeq(split, 1, Len(split) - 1) ELSE split
      retLines == MergeSeparators(linesAndNewlines, 0, <<>>)
  IN SelectSeq(retLines, LAMBDA t : t # <<>>)

(***************************************************************************)
(* diffLines of the `diff` package (Myers' O(ND) search as the package     *)
(* implements it). Positions are 0-based as in the package; a path is      *)
(* [newPos, components], a component [count, added, removed, value].       *)
(***************************************************************************)
NoPath == [newPos |-> -2, components |-> <<>>]

Component(count, added, removed) ==
  [count |-> count, added |-> added, removed |-> removed, value |-> <<>>]

pushComponent(components, added, removed) ==
  IF components # <<>>
     /\ components[Len(components)].added = added
     /\ components[Len(components)].removed = removed
  THEN [components EXCEPT ![Len(components)] =
          Component(@.count + 1, added, removed)]
  ELSE Append(components, Component(1, added, removed))

RECURSIVE CommonRun(_, _, _, _)
\* The while loop of extractCommon: how many tokens match from (newPos, oldPos).
CommonRun(newString, oldString, newPos, oldPos) ==
  IF newPos + 1 < Len(newString) /\ oldPos + 1 < Len(oldString)
     /\ oldPos + 1 >= 0
     /\ newString[newPos + 2] = oldString[oldPos + 2]
  THEN 1 + CommonRun(newString, oldString, newPos + 1, oldPos + 1)
  ELSE 0

extractCommon(basePath, newString, oldString, diagonalPath) ==
  LET commonCount ==
        CommonRun(newString, oldString, basePath.newPos, basePath.newPos - diagonalPath)
  IN [newPos |-> basePath.newPos + commonCount,
      components |-> IF commonCount > 0
                     THEN Append(basePath.components, Component(commonCount, FALSE, FALSE))
                     ELSE basePath.components]

JoinSlice(tokens, pos, count) == Join(SubSeq(tokens, pos + 1, pos + count))

RECURSIVE BuildLoop(_, _, _, _, _, _)
\* The loop of buildValues: fills in the values and moves a removal in front
\* of the addition that precedes it.
BuildLoop(components, componentPos, newPos, oldPos, newString, oldString) ==
  IF componentPos >= Len(components) THEN components
  ELSE LET component == components[componentPos + 1]
       IN IF ~component.removed
          THEN BuildLoop(
                 [components EXCEPT ![componentPos + 1].value =
                    JoinSlice(newString, newPos, component.count)],
                 componentPos + 1, newPos + component.count,
                 IF ~component.added THEN oldPos + component.count ELSE oldPos,
                 newString, oldString)
          ELSE LET valued == [component EXCEPT !.value =
                                JoinSlice(oldString, oldPos, component.count)]
                   swapped ==
                     IF componentPos > 0 /\ components[componentPos].added
                     THEN [components EXCEPT ![componentPos] = valued,
                                             ![componentPos + 1] = components[componentPos]]
                     ELSE [components EXCEPT ![componentPos + 1] = valued]
               IN BuildLoop(swapped, componentPos + 1, newPos,
                            oldPos + component.count, newString, oldString)

buildValues(components, newString, oldString) ==
  LET built == BuildLoop(components, 0, 0, 0, newString, oldString)
      componentLen == Len(built)
  IN IF componentLen > 1
        /\ (built[componentLen].added \/ built[componentLen].removed)
        /\ built[componentLen].value = <<>>
     THEN [i \in 1..(componentLen - 1) |->
             IF i = componentLen - 1
             THEN [built[i] EXCEPT !.value = @ \o built[componentLen].value]
             ELSE built[i]]
     ELSE built

RECURSIVE execEditLength(_, _, _, _, _)
\* One diagonal of one edit length; runs on to the next diagonal, then to the
\* next edit length, until a path reaches the end of both token lists.
execEditLength(bestPath, editLength, diagonalPath, newString, oldString) ==
  IF diagonalPath > editLength
  THEN execEditLength(bestPath, editLength + 1, -(editLength + 1), newString, oldString)
  ELSE
    LET newLen == Len(newString)
        oldLen == Len(oldString)
        addPath == bestPath[diagonalPath - 1]
        removePath == bestPath[diagonalPath + 1]
        oldPos0 == (IF removePath # NoPath THEN removePath.newPos ELSE 0) - diagonalPath
        cleared == IF addPath # NoPath
                   THEN [bestPath EXCEPT ![diagonalPath - 1] = NoPath]
                   ELSE bestPath
        canAdd == addPath # NoPath /\ addPath.newPos + 1 < newLen
        canRemove == removePath # NoPath /\ 0 <= oldPos0 /\ oldPos0 < oldLen
    IN IF ~canAdd /\ ~canRemove
       THEN execEditLength([cleared EXCEPT ![diagonalPath] = NoPath],
                           editLength, diagonalPath + 2, newString, oldString)
       ELSE
         LET branched ==
               IF ~canAdd \/ (canRemove /\ addPath.newPos < removePath.newPos)
               THEN [newPos |-> removePath.newPos,
                     components |-> pushComponent(removePath.components, FALSE, TRUE)]
               ELSE [newPos |-> addPath.newPos + 1,
                     components |-> pushComponent(addPath.components, TRUE, FALSE)]
             basePath == extractCommon(branched, newString, oldString, diagonalPath)
             oldPos == basePath.newPos - diagonalPath
         IN IF basePath.newPos + 1 >= newLen /\ oldPos + 1 >= oldLen
            THEN buildValues(basePath.components, newString, oldString)
            ELSE execEditLength([cleared EXCEPT ![diagonalPath] = basePath],
                                editLength, diagonalPath + 2, newString, oldString)

\* lineDiff.diff once both texts are tokenized: the runs of common, removed
\* and added lines.
lineDiff_diff(oldString, newString) ==
  LET maxEditLength == Len(newString) + Len(oldString)
      seed == extractCommon([newPos |-> -1, components |-> <<>>], newString, oldString, 0)
      bestPath == [d \in (-(maxEditLength + 2))..(maxEditLength + 2) |->
                     IF d = 0 THEN seed ELSE NoPath]
  IN IF seed.newPos + 1 >= Len(newString) /\ seed.newPos + 1 >= Len(oldString)
     THEN <<[count |-> Len(newString), added |-> FALSE, removed |-> FALSE,
             value |-> Join(newString)]>>
     ELSE execEditLength(bestPath, 1, -1, newString, oldString)

\* diffLines(oldStr, newStr)
diffLines(oldStr, newStr) == lineDiff_diff(tokenize(oldStr), tokenize(newStr))

(***************************************************************************)
(* diff.ts. A DiffChange is [value, added, removed, lineNumber, conflicted, *)
(* conflictGroup]; an absent flag is FALSE, an absent group "none".        *)
(***************************************************************************)
Change(value, added, removed, lineNumber) ==
  [value |-> value, added |-> added, removed |-> removed,
   lineNumber |-> lineNumber, conflicted |-> FALSE, conflictGroup |-> "none"]

\* An empty slot of a sparse array (reads as undefined).
Hole ==
  [value |-> Undefined, added |-> FALSE, removed |-> FALSE,
   lineNumber |-> 0, conflicted |-> FALSE, conflictGroup |-> "hole"]

\* The lines of one run: the trailing newline is cut before the split and
\* every piece is given a newline.
SplitChange(currentItem) ==
  LET body == IF EndsWithNL(currentItem.value)
              THEN SubSeq(currentItem.value, 1, Len(currentItem.value) - 1)
              ELSE currentItem.value
      pieces == SplitNL(body)
  IN [i \in 1..Len(pieces) |->
        Change(pieces[i] \o <<NL>>, currentItem.added, currentItem.removed, 0)]

RECURSIVE SplitChanges(_)
SplitChanges(changes) ==
  IF changes = <<>> THEN <<>>
  ELSE SplitChange(Head(changes)) \o SplitChanges(Tail(changes))

RECURSIVE NumberLines_AddedTakesCounter(_, _)
\* NumberLines, were an added line to take the counter itself.
NumberLines_AddedTakesCounter(splitChanges, lineNumber) ==
  IF splitChanges = <<>> THEN <<>>
  ELSE LET currentSplitChange == Head(splitChanges)
       IN IF ~currentSplitChange.added
          THEN <<[currentSplitChange EXCEPT !.lineNumber = lineNumber]>>
               \o NumberLines_AddedTakesCounter(Tail(splitChanges), lineNumber + 1)
          ELSE <<[currentSplitChange EXCEPT !.lineNumber = lineNumber]>>
               \o NumberLines_AddedTakesCounter(Tail(splitChanges), lineNumber)

RECURSIVE NumberLines(_, _)
\* The while loop of diff: a common or removed line takes the counter and
\* advances it, an added line takes the counter minus one.
NumberLines(splitChanges, lineNumber) ==
  IF splitChanges = <<>> THEN <<>>
  ELSE LET currentSplitChange == Head(splitChanges)
       IN IF ~currentSplitChange.added
          THEN <<[currentSplitChange EXCEPT !.lineNumber = lineNumber]>>
               \o NumberLines(Tail(splitChanges), lineNumber + 1)
          ELSE <<[currentSplitChange EXCEPT !.lineNumber = lineNumber - 1]>>
               \o NumberLines(Tail(splitChanges), lineNumber)

\* diff(originalContent, currentContent?)
diff(originalContent, currentContent) ==
  LET changes == diffLines(originalContent,
                           IF Truthy(currentContent) THEN currentContent
                           ELSE originalContent)
  IN NumberLines(SplitChanges(changes), 0)

(***************************************************************************)
(* merge. The patch table is a JavaScript object: `keys` holds its keys in *)
(* the order they were created, `items` the entry of each key.             *)
(***************************************************************************)
EmptyPatchTable == [keys |-> <<>>, items |-> <<>>]

HasKey(patchTable, k) == \E i \in 1..Len(patchTable.keys) : patchTable.keys[i] = k

KeyIndex(patchTable, k) ==
  CHOOSE i \in 1..Len(patchTable.keys) : patchTable.keys[i] = k

\* patchTable[change.lineNumber].changes.push(change), creating the entry first
\* when the key has none.
PushPatch(patchTable, change) ==
  LET created ==
        IF HasKey(patchTable, change.lineNumber) THEN patchTable
        ELSE [keys |-> Append(patchTable.keys, change.lineNumber),
              items |-> Append(patchTable.items, [changes |-> <<>>, modifyLength |-> 0])]
      i == KeyIndex(created, change.lineNumber)
  IN [created EXCEPT !.items[i].changes = Append(@, change)]

\* _.set(originalDiff, [lineNumber, 'removed'], true): an index inside the array
\* flags that line; an index past the end grows the array, leaving holes; a
\* negative index is a property of the array object and no element of it.
LodashSetRemoved(originalDiff, lineNumber) ==
  IF lineNumber < 0 THEN originalDiff
  ELSE IF lineNumber < Len(originalDiff)
  THEN IF originalDiff[lineNumber + 1] = Hole
       THEN [originalDiff EXCEPT ![lineNumber + 1] =
               [Hole EXCEPT !.removed = TRUE, !.conflictGroup = "none"]]
       ELSE [originalDiff EXCEPT ![lineNumber + 1].removed = TRUE]
  ELSE originalDiff
       \o [i \in 1..(lineNumber - Len(originalDiff)) |-> Hole]
       \o <<[Hole EXCEPT !.removed = TRUE, !.conflictGroup = "none"]>>

RECURSIVE ApplyChanges(_, _, _)
\* The inner loop over one overlay: additions go to the patch table, removals
\* flag the baseline line.
ApplyChanges(currentDiff, originalDiff, patchTable) ==
  IF currentDiff = <<>> THEN [originalDiff |-> originalDiff, patchTable |-> patchTable]
  ELSE LET change == Head(currentDiff)
       IN IF change.added
          THEN ApplyChanges(Tail(currentDiff), originalDiff, PushPatch(patchTable, change))
          ELSE IF change.removed
          THEN ApplyChanges(Tail(currentDiff),
                            LodashSetRemoved(originalDiff, change.lineNumber), patchTable)
          ELSE ApplyChanges(Tail(currentDiff), originalDiff, patchTable)

\* _.uniq of the anchors of the additions of one overlay.
AddedChangeLineNumbers(currentDiff) ==
  {currentDiff[i].lineNumber : i \in {j \in 1..Len(currentDiff) : currentDiff[j].added}}

\* patchTable[matchedLineNumber].modifyLength += 1 for every anchor of the overlay.
CountModifications(patchTable, currentDiff) ==
  [patchTable EXCEPT !.items =
     [i \in 1..Len(patchTable.items) |->
        IF patchTable.keys[i] \in AddedChangeLineNumbers(currentDiff)
        THEN [patchTable.items[i] EXCEPT !.modifyLength = @ + 1]
        ELSE patchTable.items[i]]]

RECURSIVE TraverseDiffList(_, _, _)
TraverseDiffList(diffList, originalDiff, patchTable) ==
  IF diffList = <<>> THEN [originalDiff |-> originalDiff, patchTable |-> patchTable]
  ELSE LET applied == ApplyChanges(Head(diffList), originalDiff, patchTable)
       IN TraverseDiffList(Tail(diffList), applied.originalDiff,
                           CountModifications(applied.patchTable, Head(diffList)))

\* An entry modified by more than one overlay has all its lines flagged.
MarkConflicts(patchTable) ==
  [patchTable EXCEPT !.items =
     [i \in 1..Len(patchTable.items) |->
        IF patchTable.items[i].modifyLength > 1
        THEN [patchTable.items[i] EXCEPT !.changes =
                [j \in 1..Len(@) |->
                   [@[j] EXCEPT !.conflicted = TRUE, !.conflictGroup = "current"]]]
        ELSE patchTable.items[i]]]

RECURSIVE SortAscending(_)
SortAscending(S) ==
  IF S = {} THEN <<>>
  ELSE LET m == CHOOSE x \in S : \A y \in S : x <= y
       IN <<m>> \o SortAscending(S \ {m})

\* Object.keys(patchTable): the keys that are array indices (non-negative
\* integers) in ascending order, then every other key in creation order.
ObjectKeys(patchTable) ==
  SortAscending({k \in {patchTable.keys[i] : i \in 1..Len(patchTable.keys)} : k >= 0})
  \o SelectSeq(patchTable.keys, LAMBDA k : k < 0)

\* Array.prototype.slice(start, end).
JsSlice(arr, start, end) ==
  LET len == Len(arr)
      from == IF start < 0 THEN (IF len + start < 0 THEN 0 ELSE len + start)
              ELSE IF start > len THEN len ELSE start
      to == IF end < 0 THEN (IF len + end < 0 THEN 0 ELSE len + end)
            ELSE IF end > len THEN len ELSE end
  IN SubSeq(arr, from + 1, to)

\* The baseline slices between consecutive anchors; the last runs to the end.
Blocks(originalDiff, lineNumbers) ==
  [index \in 1..Len(lineNumbers) |->
     IF index = Len(lineNumbers)
     THEN JsSlice(originalDiff, lineNumbers[index] + 1, Len(originalDiff))
     ELSE JsSlice(originalDiff, lineNumbers[index] + 1, lineNumbers[index + 1] + 1)]

RECURSIVE ReduceBlocks(_, _)
\* blocks.reduce: each slice is followed by the next patch, while there is one.
ReduceBlocks(blocks, patches) ==
  IF blocks = <<>> THEN <<>>
  ELSE IF patches = <<>> THEN Head(blocks) \o ReduceBlocks(Tail(blocks), <<>>)
  ELSE Head(blocks) \o Head(patches).changes \o ReduceBlocks(Tail(blocks), Tail(patches))

\* A null or undefined ChangeList argument, and a null or undefined list of them.
NullChanges == <<[Hole EXCEPT !.conflictGroup = "null"]>>
NullDiffList == <<NullChanges>>

\* merge(originalChanges, diffList)
merge(originalChanges, diffList) ==
  IF originalChanges = NullChanges THEN <<>>
  ELSE IF diffList = NullDiffList \/ diffList = <<>> THEN originalChanges
  ELSE LET traversed == TraverseDiffList(diffList, originalChanges, EmptyPatchTable)
           originalDiff == traversed.originalDiff
           patchTable == MarkConflicts(traversed.patchTable)
           keys == ObjectKeys(patchTable)
           patches == [i \in 1..Len(keys) |-> patchTable.items[KeyIndex(patchTable, keys[i])]]
           lineNumbers == <<-1>> \o keys
       IN ReduceBlocks(Blocks(originalDiff, lineNumbers), patches)

\* The baseline argument once merge has returned. originalDiff is a shallow copy
\* (Array.from), so the lines _.set flags are the caller's own change objects;
\* what _.set puts into a hole or past the end exists in the copy alone.
BaselineAfterMerge(originalChanges, diffList) ==
  IF originalChanges = NullChanges \/ diffList = NullDiffList \/ diffList = <<>>
  THEN originalChanges
  ELSE LET originalDiff ==
             TraverseDiffList(diffList, originalChanges, EmptyPatchTable).originalDiff
       IN [i \in 1..Len(originalChanges) |->
             IF originalChanges[i] = Hole THEN Hole ELSE originalDiff[i]]

(***************************************************************************)
(* Merge blocks: [status, values: [former, current], ignored].             *)
(***************************************************************************)
NewBlock(status) ==
  [status |-> status, values |-> [former |-> <<>>, current |-> <<>>], ignored |-> FALSE]

FormerFence == <<"<<<<<<< former", NL>>
MiddleFence == <<"=======", NL>>
CurrentFence == <<">>>>>>> current", NL>>

RECURSIVE parseMergeBlocksToText(_)
parseMergeBlocksToText(blocks) ==
  IF blocks = <<>> THEN <<>>
  ELSE LET currentBlock == Head(blocks)
       IN (IF currentBlock.status = "OK"
           THEN Join(currentBlock.values.current)
           ELSE FormerFence \o Join(currentBlock.values.former)
                \o MiddleFence \o Join(currentBlock.values.current) \o CurrentFence)
          \o parseMergeBlocksToText(Tail(blocks))

\* What a function that throws a TypeError stands for.
TypeError == <<"TypeError">>

RECURSIVE ParseLines(_, _)
\* The loop of parseDiffToMergeBlocks over the lines that remain. The empty slot
\* of a sparse list is read as undefined, and line.removed throws; so does the
\* push onto values[line.conflictGroup] when the group names no list of values.
ParseLines(changes, mergeBlocks) ==
  IF changes = <<>> THEN mergeBlocks
  ELSE LET line == Head(changes)
           n == Len(mergeBlocks)
       IN IF line = Hole THEN TypeError
          ELSE IF line.removed THEN ParseLines(Tail(changes), mergeBlocks)
          ELSE IF line.conflicted /\ line.conflictGroup \notin {"former", "current"}
          THEN TypeError
          ELSE IF line.conflicted
          THEN LET opened == IF n = 0 \/ mergeBlocks[n].status # "CONFLICT"
                             THEN Append(mergeBlocks, NewBlock("CONFLICT"))
                             ELSE mergeBlocks
                   m == Len(opened)
               IN ParseLines(Tail(changes),
                    IF line.conflictGroup = "former"
                    THEN [opened EXCEPT ![m].values.former = Append(@, line.value)]
                    ELSE [opened EXCEPT ![m].values.current = Append(@, line.value)])
          ELSE LET opened == IF n = 0 \/ mergeBlocks[n].status = "CONFLICT"
                             THEN Append(mergeBlocks, NewBlock("OK"))
                             ELSE mergeBlocks
                   m == Len(opened)
               IN ParseLines(Tail(changes),
                    [opened EXCEPT ![m].values.current = Append(@, line.value)])

parseDiffToMergeBlocks(changes) == ParseLines(changes, <<>>)

parseFileTextToMergeBlocks(content) == parseDiffToMergeBlocks(diff(content, Undefined))

(***************************************************************************)
(* Tables. A JavaScript object used as a map is a sequence of entries      *)
(* [key, val, null] in the order the keys were created; `null` marks an    *)
(* entry whose value is null. Pathnames are not integer-like strings.      *)
(***************************************************************************)
Entry(key, val) == [key |-> key, val |-> val, null |-> FALSE]

TableKeys(table) == [i \in 1..Len(table) |-> table[i].key]

TableHasKey(table, key) == \E i \in 1..Len(table) : table[i].key = key

TableIndex(table, key) == CHOOSE i \in 1..Len(table) : table[i].key = key

\* table[key] is truthy: the key is there and its value is not null.
TableTruthy(table, key) ==
  TableHasKey(table, key) /\ ~table[TableIndex(table, key)].null

TableGet(table, key) == table[TableIndex(table, key)].val

\* table[key] = val
TablePut(table, key, val) ==
  IF TableHasKey(table, key)
  THEN [table EXCEPT ![TableIndex(table, key)] = Entry(key, val)]
  ELSE Append(table, Entry(key, val))

\* table[key] = null
TablePutNull(table, key) ==
  IF TableHasKey(table, key)
  THEN [table EXCEPT ![TableIndex(table, key)].null = TRUE]
  ELSE Append(table, [key |-> key, val |-> <<>>, null |-> TRUE])

(***************************************************************************)
(* The Generator. Template ids, labels, the files of the template archive  *)
(* and the answers of the callbacks are drawn from small sets.             *)
(***************************************************************************)
ExtendIds == {"e1", "e2"}

EXTEND_TEMPLATE_LABEL_PREFIX == "extend:"

ExtendLabel(id) == EXTEND_TEMPLATE_LABEL_PREFIX \o id

IsExtendLabel(label) == \E id \in ExtendIds : label = ExtendLabel(id)

\* label.slice(EXTEND_TEMPLATE_LABEL_PREFIX.length)
ExtendIdOf(label) == CHOOSE id \in ExtendIds : label = ExtendLabel(id)

\* A file of a template: its directory relative to the template root, its name,
\* whether the content heuristic calls it binary, and its content.
File(dir, name, isBinary, content) ==
  [relativeDirectoryPathname |-> dir, entityName |-> name,
   isBinary |-> isBinary, content |-> content]

MainTrees ==
  {p \o q :
     p \in {<<>>, <<File("", "p", FALSE, <<"a", NL>>)>>,
            <<File("", "p", FALSE, <<"a", NL, "b", NL>>)>>},
     q \in {<<>>, <<File("d", "q", FALSE, <<"a", NL>>)>>,
            <<File("d", "__template.q", FALSE, <<"a", NL>>)>>}}

E1Trees ==
  {p \o q :
     p \in {<<>>, <<File("", "p", FALSE, <<"a", NL, "x", NL>>)>>,
            <<File("", "p", FALSE, <<"a", NL, "x", NL, "b", NL, "x", NL>>)>>},
     q \in {<<>>, <<File("d", "q", FALSE, <<"a", NL, "x", NL>>)>>,
            <<File("d", "__template.q", FALSE, <<"a", NL, "x", NL>>)>>,
            <<File("d", "q", TRUE, <<"BINARY">>)>>}}

E2Trees ==
  {p \o q :
     p \in {<<>>, <<File("", "p", FALSE, <<"a", NL, "y", NL>>)>>,
            <<File("", "p", FALSE, <<"a", NL, "y", NL, "b", NL, "y", NL>>)>>,
            <<File("", "p", FALSE, <<>>)>>},
     q \in {<<>>, <<File("d", "q", FALSE, <<"a", NL, "y", NL>>)>>}}

TemplateLabels == {"main"} \cup {ExtendLabel(id) : id \in ExtendIds}

NoTrees == [label \in TemplateLabels |-> <<>>]

\* The files of the decompressed archive, by template label.
Volumes(labels) ==
  {[label \in TemplateLabels |->
      IF label \notin labels THEN <<>>
      ELSE IF label = "main" THEN m
      ELSE IF label = ExtendLabel("e1") THEN e1 ELSE e2] :
     m \in MainTrees, e1 \in E1Trees, e2 \in E2Trees}

TextPathnames == {"p", "d/q"}

NoFiles == [merge |-> {}, delete |-> {}]

\* The names of the questions, character by character: a question of the main
\* template, a question of an extend template, and the choice of an extend
\* template, whose name starts with EXTEND_TEMPLATE_PREFIX and ends with "$".
MainQuestionName ==
  <<"m", "a", "i", "n", " ", "q", "u", "e", "s", "t", "i", "o", "n">>
ExtendQuestionName ==
  <<"e", "x", "t", "e", "n", "d", " ", "q", "u", "e", "s", "t", "i", "o", "n">>
ExtendChoiceName == <<"$", "E", "X", "T", "E", "N", "D", "$", "x", "$">>

\* The extend templates of a config: each asks one question, lists no glob and
\* has no cleanup function.
ExtendTemplateConfigs ==
  [id \in ExtendIds |->
     [questions |-> <<ExtendQuestionName>>, files |-> NoFiles, cleanups |-> <<>>]]

\* A question is modelled by its name, a glob list by the set of pathnames its
\* globs match, a cleanup function by a token. One of the configs asks for the
\* choice of an extend template, one lists two cleanup functions and, between
\* them, a value that is no function.
TemplateConfigs ==
  {[questions |-> q,
    files |-> [merge |-> m, delete |-> d],
    extendTemplates |-> ExtendTemplateConfigs,
    cleanups |-> <<>>] :
     q \in {<<>>, <<MainQuestionName>>},
     m \in {{}, TextPathnames},
     d \in {{}, {"d/q"}}}
  \cup {[questions |-> <<ExtendChoiceName>>,
         files |-> NoFiles,
         extendTemplates |-> ExtendTemplateConfigs,
         cleanups |-> <<>>]}
  \cup {[questions |-> <<MainQuestionName>>,
         files |-> NoFiles,
         extendTemplates |-> ExtendTemplateConfigs,
         cleanups |-> <<"cleanup", "not a function", "cleanup">>]}

GeneratorConfigs == [getTemplateProps : BOOLEAN, conflictsSolver : BOOLEAN]

\* protected templateConfig: TemplateConfig = {}
EmptyTemplateConfig ==
  [questions |-> <<>>, files |-> NoFiles, extendTemplates |-> <<>>, cleanups |-> <<>>]

TEMPLATE_CACHE_PATHNAME_PREFIX == "/template"
MAIN_TEMPLATE_PATHNAME_PREFIX == "/main"
EXTEND_TEMPLATE_PATHNAME_PREFIX == "/extends"

\* new Volume(): no directory, no config file, no file of any template.
EmptyVolume == [directories |-> {}, configFile |-> <<>>, entities |-> NoTrees]

\* The templateOriginName the generator is constructed with, split at ':'.
TemplateOriginName == <<"template">>

\* mainTemplatePathname() and extendTemplatePathname(id)
TemplateStartPathname(label) ==
  IF label = "main"
  THEN TEMPLATE_CACHE_PATHNAME_PREFIX \o MAIN_TEMPLATE_PATHNAME_PREFIX
  ELSE TEMPLATE_CACHE_PATHNAME_PREFIX \o EXTEND_TEMPLATE_PATHNAME_PREFIX
       \o "/" \o ExtendIdOf(label)

\* The directories mkdirSync(..., { recursive: true }) makes for the directory
\* entries of the files of one template: the directory of every file and those
\* above it, below the cache directory.
DirectoriesOf(label, tree) ==
  IF tree = <<>> THEN {}
  ELSE {TemplateStartPathname(label)}
       \cup (IF label = "main" THEN {}
             ELSE {TEMPLATE_CACHE_PATHNAME_PREFIX \o EXTEND_TEMPLATE_PATHNAME_PREFIX})
       \cup {TemplateStartPathname(label) \o "/" \o tree[i].relativeDirectoryPathname :
               i \in {j \in 1..Len(tree) : tree[j].relativeDirectoryPathname # ""}}

\* What the archive of a template decompresses to: a config file, the files of
\* the templates, and an entry for every directory that holds a file.
Archives ==
  {[configFile |-> <<tc>>, entities |-> trees,
    directories |-> UNION {DirectoriesOf(label, trees[label]) : label \in TemplateLabels}] :
     tc \in TemplateConfigs, trees \in Volumes(TemplateLabels)}

\* No label: the loop of queryAllTemplateProps is not in a turn.
NoLabel == ""

\* What answersParser makes of the answers the user gives.
ParsedAnswers ==
  {[props |-> {"name"}, pendingExtendTemplateLabels |-> pending] :
     pending \in {<<>>, <<"e1">>, <<"e2">>, <<"e1", "e2">>, <<"e2", "e1">>}}

VARIABLES
  pc,                         \* where the pipeline stands: the function to call
                              \* next, or the await it is suspended at
  config,                     \* the GeneratorConfig: which callbacks are given
  templateName,
  templateOrigin,
  templateConfig,             \* the parsed template config
  currentPendingExtendTemplateLabel,  \* the label queryAllTemplateProps shifted
  currentConflict,            \* the { pathname, index } resolveConflicts shifted
  remainedCleanups,           \* the cleanup functions runCleanups has yet to call
  pendingTemplateLabels,
  templatePropsList,
  targetedExtendTemplateIds,
  matcher,                    \* the patterns the GlobMatcher was built from
  volume,                     \* the template files read by the generator
  cacheTable,
  mergeTable,
  binaryTable,
  remainedConflictedFileDataList,
  totalConflicts,
  solverLog,                  \* the conflictsSolver calls and their verdicts
  propsLog,                   \* the getTemplateProps calls
  renderLog,                  \* the ejs.render calls and the data they were given
  clonedTables,
  cleanupCalls,               \* how many cleanup API calls were made
  result                      \* what getResult returned

\* The fields initialize sets, and the locals of the three loops that await.
originVars == <<templateName, templateOrigin>>
localVars == <<currentPendingExtendTemplateLabel, currentConflict, remainedCleanups>>

genVars == <<pc, config, originVars, localVars, templateConfig, pendingTemplateLabels,
             templatePropsList,
             targetedExtendTemplateIds, matcher, volume, cacheTable, mergeTable,
             binaryTable, remainedConflictedFileDataList, totalConflicts, solverLog,
             propsLog, renderLog, clonedTables, cleanupCalls, result>>

NoResult == [files |-> <<>>, conflicts |-> <<>>]

\* The fields of a Generator after construction.
Constructed ==
  /\ pendingTemplateLabels = <<"main">>
  /\ templatePropsList = <<>>
  /\ targetedExtendTemplateIds = <<>>
  /\ matcher = NoFiles
  /\ templateName = ""
  /\ templateOrigin = ""
  /\ templateConfig = EmptyTemplateConfig
  /\ currentPendingExtendTemplateLabel = NoLabel
  /\ currentConflict = <<>>
  /\ remainedCleanups = <<>>
  /\ volume = EmptyVolume
  /\ cacheTable = <<>>
  /\ mergeTable = <<>>
  /\ binaryTable = <<>>
  /\ remainedConflictedFileDataList = <<>>
  /\ totalConflicts = <<>>
  /\ solverLog = <<>>
  /\ propsLog = <<>>
  /\ renderLog = <<>>
  /\ clonedTables = [mergeTable |-> <<>>, binaryTable |-> <<>>]
  /\ cleanupCalls = 0
  /\ result = NoResult

(***************************************************************************)
(* queryAllTemplateProps and getTemplateProps.                             *)
(***************************************************************************)
\* _.get(templateConfig, `extendTemplates.${extendTemplateLabel}.questions`) for a
\* label, _.get(templateConfig, 'questions') without one; undefined is <<>>.
QuestionsFor(label) ==
  IF label # "main"
  THEN IF label \in DOMAIN templateConfig.extendTemplates
       THEN templateConfig.extendTemplates[label].questions
       ELSE <<>>
  ELSE templateConfig.questions

\* getFileConfigGlobs: the globs of the main template and of every activated extend.
getFileConfigGlobs(tc, extendIds, type) ==
  tc.files[type]
  \cup UNION {tc.extendTemplates[extendIds[i]].files[type] : i \in 1..Len(extendIds)}

generateFilePatterns(extendIds) ==
  [merge |-> getFileConfigGlobs(templateConfig, extendIds, "merge"),
   delete |-> getFileConfigGlobs(templateConfig, extendIds, "delete")]

\* GlobMatcher.match(pathname, type)
Match(pathname, type) == pathname \in matcher[type]

\* initialize(): the origin and the name are parsed from templateOriginName and
\* the cache directory is made.
initialize ==
  /\ pc = "initialize"
  /\ IF Len(TemplateOriginName) = 1
     THEN /\ templateOrigin' = "github"
          /\ templateName' = TemplateOriginName[1]
     ELSE /\ templateOrigin' = TemplateOriginName[1]
          /\ templateName' = TemplateOriginName[2]
  /\ volume' = [volume EXCEPT !.directories = @ \cup {TEMPLATE_CACHE_PATHNAME_PREFIX}]
  /\ pc' = "loadTemplate"
  /\ UNCHANGED <<localVars, config, templateConfig, pendingTemplateLabels,
                 templatePropsList, targetedExtendTemplateIds, matcher, cacheTable,
                 mergeTable, binaryTable, remainedConflictedFileDataList, totalConflicts,
                 solverLog, propsLog, renderLog, clonedTables, cleanupCalls, result>>

\* loadTemplate() up to the download: the origin handler, the cache and the loader
\* are awaited; no field is written yet.
loadTemplate ==
  /\ pc = "loadTemplate"
  /\ pc' = "decompress"
  /\ UNCHANGED <<originVars, localVars, config, templateConfig, pendingTemplateLabels,
                 templatePropsList, targetedExtendTemplateIds, matcher, volume, cacheTable,
                 mergeTable, binaryTable, remainedConflictedFileDataList, totalConflicts,
                 solverLog, propsLog, renderLog, clonedTables, cleanupCalls, result>>

\* The callback of decompress(data): every entry of the archive is written into
\* the volume.
decompress ==
  /\ pc = "decompress"
  /\ \E archive \in Archives :
       volume' = [directories |-> volume.directories \cup archive.directories,
                  configFile |-> archive.configFile,
                  entities |-> archive.entities]
  /\ pc' = "parseTemplateConfig"
  /\ UNCHANGED <<originVars, localVars, config, templateConfig, pendingTemplateLabels,
                 templatePropsList, targetedExtendTemplateIds, matcher, cacheTable,
                 mergeTable, binaryTable, remainedConflictedFileDataList, totalConflicts,
                 solverLog, propsLog, renderLog, clonedTables, cleanupCalls, result>>

\* getTemplateConfig(): the parsed config file, {} without one.
getTemplateConfig ==
  IF volume.configFile = <<>> THEN EmptyTemplateConfig ELSE volume.configFile[1]

EXTEND_TEMPLATE_PREFIX == <<"$", "E", "X", "T", "E", "N", "D", "$">>

\* name.startsWith(prefix) and name.endsWith(suffix)
StartsWith(name, prefix) ==
  Len(prefix) <= Len(name) /\ SubSeq(name, 1, Len(prefix)) = prefix

EndsWith(name, suffix) ==
  Len(suffix) <= Len(name)
  /\ SubSeq(name, Len(name) - Len(suffix) + 1, Len(name)) = suffix

\* What generatePostfix() can return: Math.random().toString(32).slice(2), a few
\* digits of base 32. The list `postfixes` it looks a postfix up in is never
\* added to, so every call returns its draw, equal to an earlier one or not.
Postfixes == {<<"4", "p">>, <<"0", "v">>}

\* modifyQuestionName(questions): a name that starts with EXTEND_TEMPLATE_PREFIX
\* and ends with "$" is given "__" and a postfix, every other name is kept.
\* postfixes[i] is what generatePostfix() returns when it is called for the
\* i-th question.
modifyQuestionName(questions, postfixes) ==
  [i \in 1..Len(questions) |->
     IF StartsWith(questions[i], EXTEND_TEMPLATE_PREFIX) /\ EndsWith(questions[i], <<"$">>)
     THEN questions[i] \o <<"_", "_">> \o postfixes[i]
     ELSE questions[i]]

\* parseTemplateConfig(): the questions of the template and of each extend
\* template go through modifyQuestionName, the rest of the config is kept.
\* mainPostfixes and extendPostfixes[id] are the draws of generatePostfix().
parseTemplateConfig(mainPostfixes, extendPostfixes) ==
  LET parsed == getTemplateConfig
      extendTemplates == parsed.extendTemplates
  IN [parsed EXCEPT
        !.questions = modifyQuestionName(@, mainPostfixes),
        !.extendTemplates =
          [id \in DOMAIN extendTemplates |->
             [extendTemplates[id] EXCEPT
                !.questions = modifyQuestionName(@, extendPostfixes[id])]]]

\* The questions of a config, each a call of generatePostfix() may be made for:
\* the template they belong to and their position.
QuestionSlots(parsed) ==
  {<<"main", i>> : i \in 1..Len(parsed.questions)}
  \cup UNION {{<<id, i>> : i \in 1..Len(parsed.extendTemplates[id].questions)} :
                id \in DOMAIN parsed.extendTemplates}

\* The end of loadTemplate(), once the archive is decompressed. The postfixes
\* are random: one draw for every question of the config.
ParseTemplateConfig ==
  /\ pc = "parseTemplateConfig"
  /\ LET parsed == getTemplateConfig
     IN \E draw \in [QuestionSlots(parsed) -> Postfixes] :
          templateConfig' =
            parseTemplateConfig(
              [i \in 1..Len(parsed.questions) |-> draw[<<"main", i>>]],
              [id \in DOMAIN parsed.extendTemplates |->
                 [i \in 1..Len(parsed.extendTemplates[id].questions) |-> draw[<<id, i>>]]])
  /\ pc' = "queryAllTemplateProps"
  /\ UNCHANGED <<originVars, localVars, config, pendingTemplateLabels,
                 templatePropsList, targetedExtendTemplateIds, matcher, volume, cacheTable,
                 mergeTable, binaryTable, remainedConflictedFileDataList, totalConflicts,
                 solverLog, propsLog, renderLog, clonedTables, cleanupCalls, result>>

\* The callback is called for a label: there is one and the label has questions.
Asks(label) == config.getTemplateProps /\ QuestionsFor(label) # <<>>

\* The loop of queryAllTemplateProps from its test to the next await. With a label
\* pending it is shifted and getTemplateProps runs for it: up to the call of the
\* callback when there is something to ask, to its end otherwise (the props item
\* is pushed with props {} when a callback is configured). Without one the loop
\* is over and generateFilePatterns is awaited.
LoopOfQuery(pending, propsList) ==
  IF pending = <<>>
  THEN /\ pc' = "generateFilePatterns"
       /\ currentPendingExtendTemplateLabel' = NoLabel
       /\ pendingTemplateLabels' = pending
       /\ templatePropsList' = propsList
  ELSE /\ pendingTemplateLabels' = Tail(pending)
       /\ currentPendingExtendTemplateLabel' = Head(pending)
       /\ IF Asks(Head(pending))
          THEN /\ pc' = "callback"
               /\ templatePropsList' = propsList
          ELSE /\ pc' = "getTemplateProps"
               /\ templatePropsList' =
                    IF config.getTemplateProps
                    THEN Append(propsList,
                                [label |-> Head(pending), props |-> {}, merged |-> {}])
                    ELSE propsList

\* queryAllTemplateProps() is called.
queryAllTemplateProps ==
  /\ pc = "queryAllTemplateProps"
  /\ LoopOfQuery(pendingTemplateLabels, templatePropsList)
  /\ UNCHANGED <<originVars, currentConflict, remainedCleanups, config, templateConfig,
                 targetedExtendTemplateIds, matcher, volume, cacheTable, mergeTable,
                 binaryTable, remainedConflictedFileDataList, totalConflicts, solverLog,
                 propsLog, renderLog, clonedTables, cleanupCalls, result>>

\* The rest of getTemplateProps once the callback has answered: `answers` is what
\* answersParser makes of the answer. The labels are pushed to the queue, then
\* the props item to the list.
getTemplateProps(answers) ==
  /\ pc = "callback"
  /\ LET label == currentPendingExtendTemplateLabel
         pushed == [i \in 1..Len(answers.pendingExtendTemplateLabels) |->
                      ExtendLabel(answers.pendingExtendTemplateLabels[i])]
     IN /\ pendingTemplateLabels' = pendingTemplateLabels \o pushed
        /\ templatePropsList' =
             Append(templatePropsList,
                    [label |-> label, props |-> answers.props, merged |-> {}])
        /\ propsLog' = Append(propsLog, [label |-> label,
                                         questions |-> templateConfig.questions])
  /\ pc' = "getTemplateProps"
  /\ UNCHANGED <<originVars, localVars, config, templateConfig,
                 targetedExtendTemplateIds, matcher, volume, cacheTable, mergeTable,
                 binaryTable, remainedConflictedFileDataList, totalConflicts, solverLog,
                 renderLog, clonedTables, cleanupCalls, result>>

\* queryAllTemplateProps goes on after `await this.getTemplateProps(...)`: the id
\* of an extend label is pushed, and the loop runs to its next await.
TemplatePropsGot ==
  /\ pc = "getTemplateProps"
  /\ targetedExtendTemplateIds' =
       IF IsExtendLabel(currentPendingExtendTemplateLabel)
       THEN Append(targetedExtendTemplateIds,
                   ExtendIdOf(currentPendingExtendTemplateLabel))
       ELSE targetedExtendTemplateIds
  /\ LoopOfQuery(pendingTemplateLabels, templatePropsList)
  /\ UNCHANGED <<originVars, currentConflict, remainedCleanups, config, templateConfig, matcher, volume,
                 cacheTable, mergeTable, binaryTable, remainedConflictedFileDataList,
                 totalConflicts, solverLog, propsLog, renderLog, clonedTables,
                 cleanupCalls, result>>

\* queryAllTemplateProps goes on after `await this.generateFilePatterns()`: the
\* matcher is built from the patterns.
FilePatternsGenerated ==
  /\ pc = "generateFilePatterns"
  /\ matcher' = generateFilePatterns(targetedExtendTemplateIds)
  /\ pc' = "copyTemplateFileToCacheTable"
  /\ UNCHANGED <<originVars, localVars, config, templateConfig, pendingTemplateLabels,
                 templatePropsList, targetedExtendTemplateIds, volume, cacheTable,
                 mergeTable, binaryTable, remainedConflictedFileDataList, totalConflicts,
                 solverLog, propsLog, renderLog, clonedTables, cleanupCalls, result>>

(***************************************************************************)
(* copyTemplateFileToCacheTable, deleteFiles, mergeTemplateFiles.          *)
(***************************************************************************)
HasPropsItem(label) ==
  \E i \in 1..Len(templatePropsList) : templatePropsList[i].label = label

\* TemplateIds, were the extends visited last activated first.
TemplateIds_LastActivatedFirst ==
  <<"main">> \o [i \in 1..Len(targetedExtendTemplateIds) |->
                   ExtendLabel(targetedExtendTemplateIds[
                                 Len(targetedExtendTemplateIds) + 1 - i])]

\* ['main'].concat(targetedExtendTemplateIds.map((id) => `extend:${id}`))
TemplateIds ==
  <<"main">> \o [i \in 1..Len(targetedExtendTemplateIds) |->
                   ExtendLabel(targetedExtendTemplateIds[i])]

TEMPLATE_FILE_PREFIX == "__template."

TemplateFileNames == {"q"}

\* entityName.startsWith(TEMPLATE_FILE_PREFIX)
IsTemplateFile(entityName) ==
  \E name \in TemplateFileNames : entityName = TEMPLATE_FILE_PREFIX \o name

\* entityName.slice(TEMPLATE_FILE_PREFIX.length) for a template file.
CurrentFileName(entityName) ==
  IF IsTemplateFile(entityName)
  THEN CHOOSE name \in TemplateFileNames : entityName = TEMPLATE_FILE_PREFIX \o name
  ELSE entityName

\* The key of a text file, and the key a binary file is stored under.
TextPathname(entity) ==
  (IF entity.relativeDirectoryPathname # ""
   THEN entity.relativeDirectoryPathname \o "/" ELSE "")
  \o CurrentFileName(entity.entityName)

\* The own keys of the object templatePropsList.find(label === 'main') || {}:
\* those of a props item, and whatever was merged into it.
ItemKeys == {"props", "label"}

MainTemplateProps ==
  IF HasPropsItem("main")
  THEN ItemKeys \cup templatePropsList[CHOOSE i \in 1..Len(templatePropsList) :
                                         templatePropsList[i].label = "main"].merged
  ELSE {}

\* The props of the props item of a label.
PropsOf(label) ==
  templatePropsList[CHOOSE i \in 1..Len(templatePropsList) :
                      /\ templatePropsList[i].label = label
                      /\ \A j \in 1..(i - 1) : templatePropsList[j].label # label].props

\* ejs.render(fileRawContent, _.merge(mainTemplateProps, props)) for a template
\* file: _.merge copies the keys of props into mainTemplateProps and returns it.
\* The files of the templates carry no tags, so the text comes out as it went in.
RenderEntity(tables, entity) ==
  IF ~entity.isBinary /\ IsTemplateFile(entity.entityName)
  THEN LET data == tables.mainTemplateProps \cup tables.props
       IN [tables EXCEPT !.mainTemplateProps = data,
                         !.renderLog = Append(@, [label |-> tables.label,
                                                  pathname |-> TextPathname(entity),
                                                  data |-> data])]
  ELSE tables

BinaryPathname(entity) ==
  entity.relativeDirectoryPathname \o "/" \o entity.entityName

\* originalFileDiffChanges.map((diffItem) => diffItem.value).join('')
OriginalFileContent(originalFileDiffChanges) ==
  Join([i \in 1..Len(originalFileDiffChanges) |-> originalFileDiffChanges[i].value])

\* CopyEntity, were a later template diffed against the text of the template read
\* before it instead of the baseline.
CopyEntity_AgainstPrevious(tables, entity) ==
  IF entity.isBinary
  THEN [tables EXCEPT !.binaryTable = TablePut(@, BinaryPathname(entity), entity.content)]
  ELSE LET pathname == TextPathname(entity)
           fresh == \/ ~TableHasKey(tables.cacheTable, pathname)
                    \/ TableGet(tables.cacheTable, pathname) = <<>>
           existing == IF fresh THEN <<>> ELSE TableGet(tables.cacheTable, pathname)
           previous == SelectSeq(existing[Len(existing)], LAMBDA c : ~c.removed)
           currentFileDiffChanges ==
             IF fresh THEN diff(entity.content, Undefined)
             ELSE diff(OriginalFileContent(previous), entity.content)
       IN [tables EXCEPT !.cacheTable =
             TablePut(@, pathname, Append(existing, currentFileDiffChanges))]

\* The body of the loop over entities, for one file.
CopyEntity(tables, entity) ==
  IF entity.isBinary
  THEN [tables EXCEPT !.binaryTable = TablePut(@, BinaryPathname(entity), entity.content)]
  ELSE LET pathname == TextPathname(entity)
           currentFileContent == entity.content
           fresh == \/ ~TableHasKey(tables.cacheTable, pathname)
                    \/ TableGet(tables.cacheTable, pathname) = <<>>
           currentFileDiffChanges ==
             IF fresh THEN diff(currentFileContent, Undefined)
             ELSE diff(OriginalFileContent(TableGet(tables.cacheTable, pathname)[1]),
                       currentFileContent)
           existing == IF fresh THEN <<>> ELSE TableGet(tables.cacheTable, pathname)
       IN [tables EXCEPT !.cacheTable =
             TablePut(@, pathname, Append(existing, currentFileDiffChanges))]

RECURSIVE CopyEntities(_, _)
CopyEntities(tables, entities) ==
  IF entities = <<>> THEN tables
  ELSE CopyEntities(CopyEntity(RenderEntity(tables, Head(entities)), Head(entities)),
                    Tail(entities))

RECURSIVE CopyTemplates(_, _, _)
\* The loop over templateIds: a template without a props item is skipped.
CopyTemplates(tables, templateIds, vol) ==
  IF templateIds = <<>> THEN tables
  ELSE IF ~HasPropsItem(Head(templateIds))
  THEN CopyTemplates(tables, Tail(templateIds), vol)
  ELSE CopyTemplates(CopyEntities([tables EXCEPT !.label = Head(templateIds),
                                                 !.props = PropsOf(Head(templateIds))],
                                  vol[Head(templateIds)]),
                     Tail(templateIds), vol)

copyTemplateFileToCacheTable ==
  /\ pc = "copyTemplateFileToCacheTable"
  /\ LET copied == CopyTemplates([cacheTable |-> cacheTable, binaryTable |-> binaryTable,
                                  mainTemplateProps |-> MainTemplateProps,
                                  renderLog |-> renderLog,
                                  label |-> "main", props |-> {}],
                                 TemplateIds, volume.entities)
     IN /\ cacheTable' = copied.cacheTable
        /\ binaryTable' = copied.binaryTable
        /\ renderLog' = copied.renderLog
        /\ templatePropsList' =
             [i \in 1..Len(templatePropsList) |->
                IF templatePropsList[i].label = "main"
                THEN [templatePropsList[i] EXCEPT
                        !.merged = copied.mainTemplateProps \ ItemKeys]
                ELSE templatePropsList[i]]
  /\ pc' = "deleteFiles"
  /\ UNCHANGED <<originVars, localVars, config, templateConfig, pendingTemplateLabels,
                 targetedExtendTemplateIds, matcher, volume, mergeTable,
                 remainedConflictedFileDataList, totalConflicts, solverLog, propsLog,
                 clonedTables, cleanupCalls, result>>

deleteFiles ==
  /\ pc = "deleteFiles"
  /\ cacheTable' = SelectSeq(cacheTable, LAMBDA e : ~Match(e.key, "delete"))
  /\ pc' = "mergeTemplateFiles"
  /\ UNCHANGED <<originVars, localVars, config, templateConfig, pendingTemplateLabels,
                 templatePropsList,
                 targetedExtendTemplateIds, matcher, volume, mergeTable, binaryTable,
                 remainedConflictedFileDataList, totalConflicts, solverLog, propsLog, renderLog,
                 clonedTables, cleanupCalls, result>>

\* The merge blocks mergeTemplateFiles stores for one pathname.
MergedBlocks(entityPathname, diffs) ==
  IF Match(entityPathname, "merge")
  THEN IF Len(diffs) = 1
       THEN parseDiffToMergeBlocks(diffs[1])
       ELSE parseDiffToMergeBlocks(merge(diffs[1], Tail(diffs)))
  ELSE parseDiffToMergeBlocks(diffs[Len(diffs)])

RECURSIVE MergeEntries(_, _)
MergeEntries(table, entries) ==
  IF entries = <<>> THEN table
  ELSE LET e == Head(entries)
       IN IF e.val = <<>> THEN MergeEntries(table, Tail(entries))
          ELSE MergeEntries(TablePut(table, e.key, MergedBlocks(e.key, e.val)),
                            Tail(entries))

\* The ChangeLists of one pathname once mergeTemplateFiles has gone over it: merge
\* is called on diffs[0], which it flags in place.
DiffsAfterMerge(entityPathname, diffs) ==
  IF Match(entityPathname, "merge") /\ Len(diffs) > 1
  THEN <<BaselineAfterMerge(diffs[1], Tail(diffs))>> \o Tail(diffs)
  ELSE diffs

mergeTemplateFiles ==
  /\ pc = "mergeTemplateFiles"
  /\ mergeTable' = MergeEntries(mergeTable, cacheTable)
  /\ cacheTable' = [i \in 1..Len(cacheTable) |->
                      [cacheTable[i] EXCEPT
                         !.val = DiffsAfterMerge(cacheTable[i].key, cacheTable[i].val)]]
  /\ pc' = "resolveConflicts"
  /\ UNCHANGED <<originVars, localVars, config, templateConfig, pendingTemplateLabels,
                 templatePropsList,
                 targetedExtendTemplateIds, matcher, volume, binaryTable,
                 remainedConflictedFileDataList, totalConflicts, solverLog, propsLog, renderLog,
                 clonedTables, cleanupCalls, result>>

(***************************************************************************)
(* resolveConflicts.                                                       *)
(***************************************************************************)
MaxDefers == 1

\* The blocks a conflictsSolver may hand back.
SolverBlocks ==
  {[status |-> "OK", values |-> [former |-> <<>>, current |-> <<<<"z", NL>>>>],
    ignored |-> FALSE],
   [status |-> "CONFLICT", values |-> [former |-> <<<<"f", NL>>>>, current |-> <<<<"z", NL>>>>],
    ignored |-> FALSE]}

\* What a conflictsSolver may return: null, 'ignored', a MergeBlock, or a value
\* _.isEmpty holds of (undefined, {}, a number, a boolean).
Verdicts ==
  {[kind |-> "null", block |-> NewBlock("OK")],
   [kind |-> "ignored", block |-> NewBlock("OK")],
   [kind |-> "empty", block |-> NewBlock("OK")]}
  \cup {[kind |-> "block", block |-> b] : b \in SolverBlocks}

RECURSIVE ConflictsOfBlocks(_, _, _)
\* The inner loop of getConflictedFileDataList over the blocks of one file.
ConflictsOfBlocks(pathname, mergeBlocks, index) ==
  IF index >= Len(mergeBlocks) THEN <<>>
  ELSE (IF mergeBlocks[index + 1].status = "CONFLICT" /\ ~mergeBlocks[index + 1].ignored
        THEN <<[pathname |-> pathname, index |-> index]>> ELSE <<>>)
       \o ConflictsOfBlocks(pathname, mergeBlocks, index + 1)

RECURSIVE getConflictedFileDataList(_)
getConflictedFileDataList(table) ==
  IF table = <<>> THEN <<>>
  ELSE ConflictsOfBlocks(Head(table).key, Head(table).val, 0)
       \o getConflictedFileDataList(Tail(table))

\* The loop of resolveConflicts from its test to the next await: with an item on
\* the work list it is shifted and the solver is called for it; without one the
\* function returns.
LoopOfResolve(remained) ==
  IF remained = <<>>
  THEN /\ pc' = "runCleanups"
       /\ currentConflict' = <<>>
       /\ remainedConflictedFileDataList' = <<>>
  ELSE /\ pc' = "solving"
       /\ currentConflict' = <<Head(remained)>>
       /\ remainedConflictedFileDataList' = Tail(remained)

\* resolveConflicts() is called: without a solver it returns at once, with one it
\* lists the conflicts and runs to the first call of the solver.
resolveConflicts ==
  /\ pc = "resolveConflicts"
  /\ IF ~config.conflictsSolver
     THEN /\ pc' = "runCleanups"
          /\ UNCHANGED <<remainedConflictedFileDataList, totalConflicts, currentConflict>>
     ELSE /\ totalConflicts' = getConflictedFileDataList(mergeTable)
          /\ LoopOfResolve(getConflictedFileDataList(mergeTable))
  /\ UNCHANGED <<originVars, currentPendingExtendTemplateLabel, remainedCleanups, config,
                 templateConfig,
                 pendingTemplateLabels, templatePropsList,
                 targetedExtendTemplateIds, matcher, volume, cacheTable, mergeTable,
                 binaryTable, solverLog, propsLog, renderLog, clonedTables, cleanupCalls, result>>

Defers == Len(SelectSeq(solverLog, LAMBDA c : c.verdict.kind = "null"))

\* Resolved, were a returned block to keep the status it came with.
Resolved_KeepsReturnedStatus(block, verdict) ==
  IF verdict.kind = "ignored" THEN [block EXCEPT !.ignored = TRUE]
  ELSE IF verdict.kind = "empty" THEN block
  ELSE verdict.block

\* Resolved, were an ignored block to be closed like a solved one.
Resolved_IgnoredIsClosed(block, verdict) ==
  IF verdict.kind = "ignored" THEN [block EXCEPT !.ignored = TRUE, !.status = "OK"]
  ELSE IF verdict.kind = "empty" THEN block
  ELSE [verdict.block EXCEPT !.status = "OK"]

\* Requeued, were a deferred item to go to the back of the work list.
Requeued_AtTheBack(item, rest, verdict) ==
  IF verdict.kind = "null" THEN Append(rest, item) ELSE rest

\* Requeued, were a deferred item to be given up.
Requeued_DropsDeferred(item, rest, verdict) == rest

\* The work list after a verdict: a null verdict puts the item back at the head.
Requeued(item, rest, verdict) ==
  IF verdict.kind = "null" THEN <<item>> \o rest ELSE rest

\* The block at the index asked about after a verdict other than null: an empty
\* value takes none of the three branches and leaves the block as it is.
Resolved(block, verdict) ==
  IF verdict.kind = "ignored" THEN [block EXCEPT !.ignored = TRUE]
  ELSE IF verdict.kind = "empty" THEN block
  ELSE [verdict.block EXCEPT !.status = "OK"]

\* StoreResolved, were a solved block to be joined to an OK block right before it.
StoreResolved_JoinsOKNeighbour(blocks, index, verdict) ==
  IF verdict.kind = "block" /\ index > 0 /\ blocks[index].status = "OK"
  THEN [i \in 1..(Len(blocks) - 1) |->
          IF i < index THEN blocks[i]
          ELSE IF i = index
          THEN [blocks[i] EXCEPT !.values.current = @ \o verdict.block.values.current]
          ELSE blocks[i + 1]]
  ELSE [blocks EXCEPT ![index + 1] = Resolved(@, verdict)]

\* this.mergeTable[pathname][index] = ...: the block is overwritten where it is.
StoreResolved(blocks, index, verdict) ==
  [blocks EXCEPT ![index + 1] = Resolved(@, verdict)]

\* resolveConflicts goes on after `await conflictsSolver(...)`: the verdict is
\* applied to the item the solver was called for, and the loop runs to its next
\* await. The call is logged with its verdict.
SolveConflict(verdict) ==
  /\ pc = "solving"
  /\ verdict.kind = "null" => Defers < MaxDefers
  /\ LET item == currentConflict[1]
         pathname == item.pathname
         index == item.index
         currentPathnameConflicts ==
           SelectSeq(totalConflicts, LAMBDA c : c.pathname = pathname)
         currentIndex ==
           (CHOOSE i \in 1..Len(currentPathnameConflicts) :
              currentPathnameConflicts[i].index = index) - 1
         blocks == TableGet(mergeTable, pathname)
     IN /\ solverLog' = Append(solverLog,
             [pathname |-> pathname, blockIndex |-> index,
              total |-> Len(currentPathnameConflicts), index |-> currentIndex,
              block |-> blocks[index + 1],
              content |-> parseMergeBlocksToText(blocks),
              verdict |-> verdict])
        /\ mergeTable' =
             IF verdict.kind = "null" THEN mergeTable
             ELSE TablePut(mergeTable, pathname, StoreResolved(blocks, index, verdict))
        /\ LoopOfResolve(Requeued(item, remainedConflictedFileDataList, verdict))
  /\ UNCHANGED <<originVars, currentPendingExtendTemplateLabel, remainedCleanups, config,
                 templateConfig,
                 pendingTemplateLabels, templatePropsList,
                 targetedExtendTemplateIds, matcher, volume, cacheTable, binaryTable,
                 totalConflicts, propsLog, renderLog, clonedTables, cleanupCalls, result>>

(***************************************************************************)
(* runCleanups: the tables are cloned, the cleanup callbacks work on the   *)
(* clones through the functions they are given, and the clones, without    *)
(* their null entries, become the tables.                                  *)
(***************************************************************************)
MaxCleanupCalls == 2

\* The pathnames and contents the cleanup callbacks pass.
CleanupPathnames == {"p", "n"}
CleanupText == <<"n", NL>>
CleanupTexts == {CleanupText, <<"n">>}
CleanupBuffer == <<"BUFFER">>

\* The entries of a cloned table whose content is not null.
Committed(table) == SelectSeq(table, LAMBDA e : ~e.null)

RECURSIVE ExtendCleanups(_)
\* The cleanup functions of the extend templates with the given ids, in order.
ExtendCleanups(extendIds) ==
  IF extendIds = <<>> THEN <<>>
  ELSE (IF Head(extendIds) \in DOMAIN templateConfig.extendTemplates
        THEN templateConfig.extendTemplates[Head(extendIds)].cleanups
        ELSE <<>>)
       \o ExtendCleanups(Tail(extendIds))

\* _.isFunction(cleanup): a cleanup function is "cleanup", anything else in the
\* list is some other value.
isFunction(cleanup) == cleanup = "cleanup"

\* const cleanups: those of the template, then those of the activated extends,
\* the functions among them.
Cleanups ==
  SelectSeq(templateConfig.cleanups \o ExtendCleanups(targetedExtendTemplateIds),
            isFunction)

\* runCleanups() is called: the tables are cloned and the first cleanup function
\* is called. Without a cleanup function the clones become the tables at once.
runCleanups ==
  /\ pc = "runCleanups"
  /\ clonedTables' = [mergeTable |-> mergeTable, binaryTable |-> binaryTable]
  /\ IF Cleanups = <<>>
     THEN /\ mergeTable' = Committed(mergeTable)
          /\ binaryTable' = Committed(binaryTable)
          /\ remainedCleanups' = <<>>
          /\ pc' = "getResult"
     ELSE /\ remainedCleanups' = Tail(Cleanups)
          /\ pc' = "cleaning"
          /\ UNCHANGED <<mergeTable, binaryTable>>
  /\ UNCHANGED <<originVars, currentPendingExtendTemplateLabel, currentConflict, config,
                 templateConfig, pendingTemplateLabels, templatePropsList,
                 targetedExtendTemplateIds, matcher, volume, cacheTable,
                 remainedConflictedFileDataList, totalConflicts, solverLog,
                 propsLog, renderLog, cleanupCalls, result>>

CleanupFrame ==
  UNCHANGED <<pc, originVars, localVars, config, templateConfig, pendingTemplateLabels,
                 templatePropsList,
              targetedExtendTemplateIds, matcher, volume, cacheTable, mergeTable,
              binaryTable, remainedConflictedFileDataList, totalConflicts, solverLog,
              propsLog, renderLog, result>>

\* exists(pathname), getTextFileContent(pathname) and getBinaryFileBuffer(pathname)
\* of the cleanup API read the tables of the generator. getTextFileContent of a
\* pathname without an entry throws a TypeError.
exists(pathname) == TableTruthy(mergeTable, pathname)

getTextFileContent(pathname) ==
  IF TableTruthy(mergeTable, pathname)
  THEN parseMergeBlocksToText(TableGet(mergeTable, pathname))
  ELSE TypeError

getBinaryFileBuffer(pathname) ==
  IF TableHasKey(binaryTable, pathname) THEN TableGet(binaryTable, pathname)
  ELSE Undefined

\* addFile, were the tables not cloned: the file is written to the merge table of
\* the generator as well.
addFile_WritesLiveTable(pathname, content) ==
  /\ pc = "cleaning"
  /\ cleanupCalls < MaxCleanupCalls
  /\ cleanupCalls' = cleanupCalls + 1
  /\ clonedTables' =
       IF ~TableTruthy(clonedTables.mergeTable, pathname)
       THEN [clonedTables EXCEPT !.mergeTable =
               TablePut(@, pathname, parseFileTextToMergeBlocks(content))]
       ELSE clonedTables
  /\ mergeTable' = clonedTables'.mergeTable
  /\ UNCHANGED <<pc, originVars, localVars, config, templateConfig, pendingTemplateLabels,
                 templatePropsList,
                 targetedExtendTemplateIds, matcher, volume, cacheTable,
                 binaryTable, remainedConflictedFileDataList, totalConflicts, solverLog,
                 propsLog, renderLog, result>>

\* addFile(pathname, content), also known as addTextFile
addFile(pathname, content) ==
  /\ pc = "cleaning"
  /\ cleanupCalls < MaxCleanupCalls
  /\ cleanupCalls' = cleanupCalls + 1
  /\ clonedTables' =
       IF ~TableTruthy(clonedTables.mergeTable, pathname)
       THEN [clonedTables EXCEPT !.mergeTable =
               TablePut(@, pathname, parseFileTextToMergeBlocks(content))]
       ELSE clonedTables
  /\ CleanupFrame

addBinaryFile(pathname, content) ==
  /\ pc = "cleaning"
  /\ cleanupCalls < MaxCleanupCalls
  /\ cleanupCalls' = cleanupCalls + 1
  /\ clonedTables' =
       IF ~TableTruthy(clonedTables.binaryTable, pathname)
       THEN [clonedTables EXCEPT !.binaryTable = TablePut(@, pathname, content)]
       ELSE clonedTables
  /\ CleanupFrame

RECURSIVE NullAll(_, _)
NullAll(tables, pathnameList) ==
  IF pathnameList = <<>> THEN tables
  ELSE NullAll([mergeTable |-> TablePutNull(tables.mergeTable, Head(pathnameList)),
                binaryTable |-> TablePutNull(tables.binaryTable, Head(pathnameList))],
               Tail(pathnameList))

\* deleteFiles(pathnameList) of the cleanup API
cleanupDeleteFiles(pathnameList) ==
  /\ pc = "cleaning"
  /\ cleanupCalls < MaxCleanupCalls
  /\ cleanupCalls' = cleanupCalls + 1
  /\ clonedTables' = NullAll(clonedTables, pathnameList)
  /\ CleanupFrame

\* runCleanups goes on after `await cleanup(...)`: the next cleanup function is
\* called, and after the last one the clones, without their null entries, become
\* the tables.
CleanupReturned ==
  /\ pc = "cleaning"
  /\ IF remainedCleanups = <<>>
     THEN /\ mergeTable' = Committed(clonedTables.mergeTable)
          /\ binaryTable' = Committed(clonedTables.binaryTable)
          /\ pc' = "getResult"
          /\ UNCHANGED remainedCleanups
     ELSE /\ remainedCleanups' = Tail(remainedCleanups)
          /\ UNCHANGED <<pc, mergeTable, binaryTable>>
  /\ UNCHANGED <<originVars, currentPendingExtendTemplateLabel, currentConflict, config,
                 templateConfig, pendingTemplateLabels, templatePropsList,
                 targetedExtendTemplateIds, matcher, volume, cacheTable,
                 remainedConflictedFileDataList, totalConflicts, solverLog, propsLog,
                 renderLog, clonedTables, cleanupCalls, result>>

(***************************************************************************)
(* getResult.                                                              *)
(***************************************************************************)
RECURSIVE MergeInto(_, _)
\* _.merge(object, source) for tables of strings and buffers: every entry of the
\* source is written over the object.
MergeInto(object, source) ==
  IF source = <<>> THEN object
  ELSE MergeInto(TablePut(object, Head(source).key, Head(source).val), Tail(source))

RECURSIVE Uniq(_)
\* _.uniq: the first occurrence of every element, in order.
Uniq(list) ==
  IF list = <<>> THEN <<>>
  ELSE LET rest == Uniq(SubSeq(list, 1, Len(list) - 1))
           last == list[Len(list)]
       IN IF \E i \in 1..Len(rest) : rest[i] = last THEN rest ELSE Append(rest, last)

RECURSIVE ConflictedPathnames(_)
\* The loops of getIgnoredConflictedFilePathnameList: the pathname is pushed once
\* for each of its CONFLICT blocks.
ConflictedPathnames(table) ==
  IF table = <<>> THEN <<>>
  ELSE LET mergeBlocks == Head(table).val
           hits == SelectSeq(mergeBlocks, LAMBDA b : b.status = "CONFLICT")
       IN [i \in 1..Len(hits) |-> Head(table).key] \o ConflictedPathnames(Tail(table))

RECURSIVE IgnoredConflictedPathnames(_)
IgnoredConflictedPathnames(table) ==
  IF table = <<>> THEN <<>>
  ELSE LET hits == SelectSeq(Head(table).val,
                             LAMBDA b : b.status = "CONFLICT" /\ b.ignored)
       IN [i \in 1..Len(hits) |-> Head(table).key]
          \o IgnoredConflictedPathnames(Tail(table))

\* The list as the earlier generator.ts builds it: a pathname once for each of
\* its ignored CONFLICT blocks.
getIgnoredConflictedFilePathnameList_OnlyIgnored(table) ==
  IgnoredConflictedPathnames(table)

\* The list, were an ignored CONFLICT block not to count.
getIgnoredConflictedFilePathnameList_NotIgnored(table) ==
  Uniq(ConflictedPathnames(
         [i \in 1..Len(table) |->
            [table[i] EXCEPT !.val = SelectSeq(@, LAMBDA b : ~b.ignored)]]))

getIgnoredConflictedFilePathnameList(table) == Uniq(ConflictedPathnames(table))

\* The text of every merge table entry.
RenderedFiles(table) ==
  [i \in 1..Len(table) |-> Entry(table[i].key, parseMergeBlocksToText(table[i].val))]

getResult ==
  /\ pc = "getResult"
  /\ result' = [files |-> MergeInto(binaryTable, RenderedFiles(mergeTable)),
                conflicts |-> getIgnoredConflictedFilePathnameList(mergeTable)]
  /\ binaryTable' = MergeInto(binaryTable, RenderedFiles(mergeTable))
  /\ pc' = "done"
  /\ UNCHANGED <<originVars, localVars, config, templateConfig, pendingTemplateLabels,
                 templatePropsList,
                 targetedExtendTemplateIds, matcher, volume, cacheTable, mergeTable,
                 remainedConflictedFileDataList, totalConflicts, solverLog, propsLog, renderLog,
                 clonedTables, cleanupCalls>>

(***************************************************************************)
(* The library used directly: texts are drawn from bounded sets, diffed    *)
(* against the baseline, merged, parsed to blocks and rendered.            *)
(***************************************************************************)
MaxBaseLines == 2
MaxOverlayLines == 3

Letters == {"a", "x"}

\* How many overlays a baseline is merged with.
OverlayCounts == {0, 1, 2}

\* Every sequence of at most n letters, one letter a line.
LineSeqs(n) == UNION {[1..k -> Letters] : k \in 0..n}

\* The text of the given lines, each ended by a newline.
LinesText(lines) == Join([i \in 1..Len(lines) |-> <<lines[i], NL>>])

\* The texts of at most n lines, with and without the newline of the last line.
Texts(n) ==
  {LinesText(lines) : lines \in LineSeqs(n)}
  \cup {SubSeq(LinesText(lines), 1, 2 * Len(lines) - 1) : lines \in LineSeqs(n) \ {<<>>}}

VARIABLES
  libPc,            \* "input", "diffed", "merged", "parsed", "mergedOnto"
  originalContent,  \* the baseline text
  overlayContents,  \* the texts of the overlays
  libDiffs,         \* <<diff(baseline), diff(baseline, overlay 1), ...>>
  libMerged,        \* merge(libDiffs[1], the rest of libDiffs)
  libBlocks,        \* parseDiffToMergeBlocks(libMerged)
  libText           \* parseMergeBlocksToText(libBlocks)

libVars == <<libPc, originalContent, overlayContents, libDiffs, libMerged, libBlocks, libText>>

vars == <<genVars, libVars>>

\* The library variables while the Generator runs.
LibIdle ==
  /\ libPc = "idle"
  /\ originalContent = <<>>
  /\ overlayContents = <<>>
  /\ libDiffs = <<>>
  /\ libMerged = <<>>
  /\ libBlocks = <<>>
  /\ libText = <<>>

\* The Generator variables while the library is used directly.
GenIdle ==
  /\ pc = "idle"
  /\ config = [getTemplateProps |-> FALSE, conflictsSolver |-> FALSE]
  /\ Constructed

LibInit ==
  /\ libPc = "input"
  /\ originalContent \in Texts(MaxBaseLines)
  /\ overlayContents \in UNION {[1..k -> Texts(MaxOverlayLines)] : k \in OverlayCounts}
  /\ libDiffs = <<>>
  /\ libMerged = <<>>
  /\ libBlocks = <<>>
  /\ libText = <<>>
  /\ GenIdle

\* The baseline is diffed against itself, each overlay against the baseline.
LibDiff ==
  /\ libPc = "input"
  /\ libDiffs' = <<diff(originalContent, Undefined)>>
                 \o [i \in 1..Len(overlayContents) |->
                       diff(originalContent, overlayContents[i])]
  /\ libPc' = "diffed"
  /\ UNCHANGED <<originalContent, overlayContents, libMerged, libBlocks, libText, genVars>>

LibMerge ==
  /\ libPc = "diffed"
  /\ libMerged' = merge(Head(libDiffs), Tail(libDiffs))
  /\ libDiffs' = <<BaselineAfterMerge(Head(libDiffs), Tail(libDiffs))>> \o Tail(libDiffs)
  /\ libPc' = "merged"
  /\ UNCHANGED <<originalContent, overlayContents, libBlocks, libText, genVars>>

LibParse ==
  /\ libPc = "merged"
  /\ libBlocks' = parseDiffToMergeBlocks(libMerged)
  /\ libText' = IF \E i \in 1..Len(libMerged) : libMerged[i] = Hole
                THEN TypeError
                ELSE parseMergeBlocksToText(parseDiffToMergeBlocks(libMerged))
  /\ libPc' = "parsed"
  /\ UNCHANGED <<originalContent, overlayContents, libDiffs, libMerged, genVars>>

\* The baselines merge is called with when the overlays do not fit: null, and the
\* baseline without its last lines.
ShortBaselines(changes) ==
  {NullChanges} \cup {SubSeq(changes, 1, n) : n \in 0..(Len(changes) - 1)}

\* merge is called with overlays that were diffed against a longer baseline.
LibMergeOnto ==
  /\ libPc = "diffed"
  /\ \E baseline \in ShortBaselines(Head(libDiffs)) :
       /\ libDiffs' = <<BaselineAfterMerge(baseline, Tail(libDiffs))>> \o Tail(libDiffs)
       /\ libMerged' = merge(baseline, Tail(libDiffs))
  /\ libPc' = "mergedOnto"
  /\ UNCHANGED <<originalContent, overlayContents, libBlocks, libText, genVars>>

LibNext == LibDiff \/ LibMerge \/ LibParse \/ LibMergeOnto

SpecLib == LibInit /\ [][LibNext]_vars

(***************************************************************************)
(* The Generator run: constructor, then the pipeline steps in order.       *)
(***************************************************************************)
Init ==
  /\ pc = "initialize"
  /\ config \in GeneratorConfigs
  /\ Constructed
  /\ LibIdle

Next ==
  \/ initialize /\ UNCHANGED libVars
  \/ loadTemplate /\ UNCHANGED libVars
  \/ decompress /\ UNCHANGED libVars
  \/ ParseTemplateConfig /\ UNCHANGED libVars
  \/ queryAllTemplateProps /\ UNCHANGED libVars
  \/ \E answers \in ParsedAnswers : getTemplateProps(answers) /\ UNCHANGED libVars
  \/ TemplatePropsGot /\ UNCHANGED libVars
  \/ FilePatternsGenerated /\ UNCHANGED libVars
  \/ copyTemplateFileToCacheTable /\ UNCHANGED libVars
  \/ deleteFiles /\ UNCHANGED libVars
  \/ mergeTemplateFiles /\ UNCHANGED libVars
  \/ resolveConflicts /\ UNCHANGED libVars
  \/ \E verdict \in Verdicts : SolveConflict(verdict) /\ UNCHANGED libVars
  \/ runCleanups /\ UNCHANGED libVars
  \/ \E pathname \in CleanupPathnames, content \in CleanupTexts :
       addFile(pathname, content) /\ UNCHANGED libVars
  \/ \E pathname \in CleanupPathnames :
       addBinaryFile(pathname, CleanupBuffer) /\ UNCHANGED libVars
  \/ \E pathname \in CleanupPathnames : cleanupDeleteFiles(<<pathname>>) /\ UNCHANGED libVars
  \/ CleanupReturned /\ UNCHANGED libVars
  \/ getResult /\ UNCHANGED libVars

Spec == Init /\ [][Next]_vars

(***************************************************************************)
(* Properties of the library.                                              *)
(***************************************************************************)
\* The anchors at which a ChangeList adds lines.
Anchors(changes) ==
  {changes[i].lineNumber : i \in {j \in 1..Len(changes) : changes[j].added}}

\* The values a ChangeList adds at anchor k, in order.
AddedAt(changes, k) ==
  LET picked == SelectSeq(changes, LAMBDA c : c.added /\ c.lineNumber = k)
  IN [i \in 1..Len(picked) |-> picked[i].value]

\* The text a ChangeList stands for: the values of its lines that are not removed.
Reconstitute(changes) ==
  LET kept == SelectSeq(changes, LAMBDA c : ~c.removed)
  IN Join([i \in 1..Len(kept) |-> kept[i].value])

\* The line numbers of the baseline (not added) changes among the first n changes.
BaselineLinesBefore(changes, n) ==
  LET picked == SelectSeq(SubSeq(changes, 1, n), LAMBDA c : ~c.added)
  IN [i \in 1..Len(picked) |-> picked[i].lineNumber]

ConflictBlockIndexes(blocks) == {i \in 1..Len(blocks) : blocks[i].status = "CONFLICT"}

NoConflicted(changes) == \A i \in 1..Len(changes) : ~changes[i].conflicted

\* Two overlays that add lines at exactly one common anchor.
TwoOverlaysOneSharedAnchor ==
  /\ libPc = "parsed"
  /\ Len(overlayContents) = 2
  /\ Cardinality(Anchors(libDiffs[2]) \cap Anchors(libDiffs[3])) = 1

SharedAnchor == CHOOSE k \in Anchors(libDiffs[2]) \cap Anchors(libDiffs[3]) : TRUE

\* The conflict block found at anchor k: exactly one CONFLICT block, which follows
\* the baseline lines 0..k and nothing else of the baseline, and holds the lines
\* both overlays add at k.
OneConflictAt(k) ==
  /\ Cardinality(ConflictBlockIndexes(libBlocks)) = 1
  /\ LET b == CHOOSE i \in ConflictBlockIndexes(libBlocks) : TRUE
         first == CHOOSE i \in 1..Len(libMerged) :
                    libMerged[i].conflicted /\ \A j \in 1..(i - 1) : ~libMerged[j].conflicted
     IN /\ libBlocks[b].values.former \o libBlocks[b].values.current
             = AddedAt(libDiffs[2], k) \o AddedAt(libDiffs[3], k)
        /\ BaselineLinesBefore(libMerged, first - 1) = [i \in 1..(k + 1) |-> i - 1]

\* C1: two overlays that insert at the same baseline anchor, and share no other
\* anchor, give exactly one CONFLICT block, placed at that anchor and holding the
\* inserted lines of both; every other block is OK.
C1_OneConflictAtSharedAnchor ==
  TwoOverlaysOneSharedAnchor => OneConflictAt(SharedAnchor)

\* C1 away from the start of the file: the shared anchor is a baseline line and no
\* overlay inserts before the first line.
C1_Probe_NoPreFirstAnchor ==
  (TwoOverlaysOneSharedAnchor
     /\ -1 \notin (Anchors(libDiffs[2]) \cup Anchors(libDiffs[3])))
  => OneConflictAt(SharedAnchor)

\* C2: with a single overlay diffed against the baseline, the merge flags nothing
\* as conflicted and the rendered blocks are the overlay's own text.
C2_SingleOverlayGivesItsText ==
  (libPc = "parsed" /\ Len(overlayContents) = 1)
  => (NoConflicted(libMerged) /\ libText = overlayContents[1])

\* C4: rendering the blocks of the self-diff of a text gives the text back exactly.
C4_SelfDiffRoundTrip ==
  (libPc = "parsed" /\ overlayContents = <<>>) => libText = originalContent

\* C5: the lines of diff(a, b) that are not removed spell b, up to the newline that
\* ends the text.
C5_DiffReconstitutesCurrent ==
  libPc = "diffed" =>
    \A k \in 1..Len(overlayContents) :
      Reconstitute(libDiffs[k + 1]) \in {overlayContents[k], overlayContents[k] \o <<NL>>}

\* Two overlays that each add lines at one anchor, at different anchors, and add
\* different lines.
TwoOverlaysDistinctAnchors ==
  /\ libPc = "parsed"
  /\ Len(overlayContents) = 2
  /\ Cardinality(Anchors(libDiffs[2])) = 1
  /\ Cardinality(Anchors(libDiffs[3])) = 1
  /\ Anchors(libDiffs[2]) # Anchors(libDiffs[3])
  /\ \A i \in 1..Len(libDiffs[2]), j \in 1..Len(libDiffs[3]) :
       (libDiffs[2][i].added /\ libDiffs[3][j].added)
         => libDiffs[2][i].value # libDiffs[3][j].value

\* The lines the overlay adds are found together in the merged list, right after
\* the baseline line of their anchor (at the very start for the anchor -1).
InsertedRightAfterAnchor(overlay) ==
  LET k == CHOOSE a \in Anchors(overlay) : TRUE
      added == SelectSeq(overlay, LAMBDA c : c.added)
  IN \E p \in 1..Len(libMerged) :
       /\ SubSeq(libMerged, p, p + Len(added) - 1) = added
       /\ IF k = -1 THEN p = 1
          ELSE /\ p > 1
               /\ ~libMerged[p - 1].added
               /\ libMerged[p - 1].lineNumber = k

\* The anchors of the added lines of the merged list, in the order they are met.
MergedAnchorOrder ==
  LET picked == SelectSeq(libMerged, LAMBDA c : c.added)
  IN [i \in 1..Len(picked) |-> picked[i].lineNumber]

\* C3: two overlays inserting distinct lines at two distinct anchors give no
\* conflict; each one's lines follow the baseline line of its own anchor and the
\* anchors are met in ascending order.
C3_DistinctAnchorsNoConflict ==
  TwoOverlaysDistinctAnchors =>
    /\ NoConflicted(libMerged)
    /\ InsertedRightAfterAnchor(libDiffs[2])
    /\ InsertedRightAfterAnchor(libDiffs[3])
    /\ \A i, j \in 1..Len(MergedAnchorOrder) :
         i < j => MergedAnchorOrder[i] <= MergedAnchorOrder[j]

\* C3 for anchors that are baseline lines (no insertion before the first line).
C3_Probe_NoPreFirstAnchor ==
  (TwoOverlaysDistinctAnchors
     /\ -1 \notin (Anchors(libDiffs[2]) \cup Anchors(libDiffs[3])))
    => C3_DistinctAnchorsNoConflict

(***************************************************************************)
(* Properties of the Generator.                                            *)
(***************************************************************************)
Range(list) == {list[i] : i \in 1..Len(list)}

ConflictBlocks(blocks) == {i \in 1..Len(blocks) : blocks[i].status = "CONFLICT"}

NoDuplicates(list) == \A i, j \in 1..Len(list) : list[i] = list[j] => i = j

\* C6: a pathname is in the conflicts of the result exactly when its final merge
\* table entry has a CONFLICT block, ignored or not, and it is listed once.
C6_ConflictsListsEveryConflictedFile ==
  pc = "done" =>
    /\ \A i \in 1..Len(mergeTable) :
         (mergeTable[i].key \in Range(result.conflicts))
           <=> ConflictBlocks(mergeTable[i].val) # {}
    /\ Range(result.conflicts) \subseteq Range(TableKeys(mergeTable))
    /\ NoDuplicates(result.conflicts)

\* A file with two CONFLICT blocks, one of them ignored, that is listed.
C6_Witness ==
  /\ pc = "done"
  /\ \E i \in 1..Len(mergeTable) :
       /\ Cardinality(ConflictBlocks(mergeTable[i].val)) = 2
       /\ \E b \in ConflictBlocks(mergeTable[i].val) : mergeTable[i].val[b].ignored
       /\ mergeTable[i].key \in Range(result.conflicts)

\* C7 as claimed: the conflicts are exactly the pathnames that still have a
\* CONFLICT block that is not ignored.
C7_ConflictsListsOnlyUnignored ==
  pc = "done" =>
    Range(result.conflicts) =
      {mergeTable[i].key : i \in {j \in 1..Len(mergeTable) :
         \E b \in ConflictBlocks(mergeTable[j].val) : ~mergeTable[j].val[b].ignored}}

\* C7, amended: a pathname whose CONFLICT blocks are all ignored is listed too; the
\* conflicts are the pathnames with a CONFLICT block that is ignored or not ignored,
\* and no pathname without a CONFLICT block.
C7_ConflictsListsIgnoredToo ==
  pc = "done" =>
    Range(result.conflicts) =
      {mergeTable[i].key : i \in {j \in 1..Len(mergeTable) :
         \E b \in ConflictBlocks(mergeTable[j].val) : ~mergeTable[j].val[b].ignored}}
      \cup
      {mergeTable[i].key : i \in {j \in 1..Len(mergeTable) :
         \E b \in ConflictBlocks(mergeTable[j].val) : mergeTable[j].val[b].ignored}}

\* A listed file all of whose CONFLICT blocks are ignored.
C7_Witness ==
  /\ pc = "done"
  /\ \E i \in 1..Len(mergeTable) :
       /\ ConflictBlocks(mergeTable[i].val) # {}
       /\ \A b \in ConflictBlocks(mergeTable[i].val) : mergeTable[i].val[b].ignored
       /\ mergeTable[i].key \in Range(result.conflicts)

\* The stages in which the merge table is the one resolveConflicts left.
BeforeCommit == pc \in {"solving", "runCleanups", "cleaning"}

\* The result of a run in which no cleanup touched the tables.
DoneUntouched == pc = "done" /\ cleanupCalls = 0

\* The solver calls whose verdict was of the given kind.
CallsOfKind(kind) == {k \in 1..Len(solverLog) : solverLog[k].verdict.kind = kind}

\* The text of a file whose block of index blockIndex contributes the piece.
TextAround(blocks, blockIndex, piece) ==
  parseMergeBlocksToText(SubSeq(blocks, 1, blockIndex))
    \o piece
    \o parseMergeBlocksToText(SubSeq(blocks, blockIndex + 2, Len(blocks)))

Fenced(block) ==
  FormerFence \o Join(block.values.former) \o MiddleFence
    \o Join(block.values.current) \o CurrentFence

\* C8: a block the solver returns replaces the block of the work item with status
\* OK, whatever status it came with; from then on the file's text has the current
\* lines of the returned block in its place, without markers, and a file whose only
\* conflict was solved this way is not among the conflicts of the result.
C8_ReturnedBlockIsStoredAsOK ==
  \A k \in CallsOfKind("block") :
    LET call == solverLog[k]
        stored == [call.verdict.block EXCEPT !.status = "OK"]
        lines == Join(call.verdict.block.values.current)
    IN /\ BeforeCommit \/ DoneUntouched =>
            /\ TableGet(mergeTable, call.pathname)[call.blockIndex + 1] = stored
            /\ parseMergeBlocksToText(TableGet(mergeTable, call.pathname))
                 = TextAround(TableGet(mergeTable, call.pathname), call.blockIndex, lines)
       /\ DoneUntouched =>
            TableGet(result.files, call.pathname)
              = TextAround(TableGet(mergeTable, call.pathname), call.blockIndex, lines)
       /\ pc = "done" /\ call.total = 1 => call.pathname \notin Range(result.conflicts)

\* The only conflict of a file was answered with a block of status CONFLICT, and the
\* result has the file and no conflict for it.
C8_Witness ==
  /\ DoneUntouched
  /\ \E k \in CallsOfKind("block") :
       /\ solverLog[k].verdict.block.status = "CONFLICT"
       /\ solverLog[k].total = 1
       /\ TableHasKey(result.files, solverLog[k].pathname)
       /\ solverLog[k].pathname \notin Range(result.conflicts)

\* C9 as claimed: an ignored block keeps its values and its CONFLICT status and gets
\* ignored = true, its file is among the conflicts, and the text of the file has the
\* current lines of the block in its place.
C9_IgnoredBlockRendersCurrentLines ==
  \A k \in CallsOfKind("ignored") :
    LET call == solverLog[k]
        lines == Join(call.block.values.current)
    IN /\ BeforeCommit \/ DoneUntouched =>
            TableGet(mergeTable, call.pathname)[call.blockIndex + 1]
              = [call.block EXCEPT !.ignored = TRUE]
       /\ DoneUntouched =>
            /\ call.pathname \in Range(result.conflicts)
            /\ TableGet(result.files, call.pathname)
                 = TextAround(TableGet(mergeTable, call.pathname), call.blockIndex, lines)

\* C9, amended: an ignored block keeps its values and its CONFLICT status and gets
\* ignored = true, its file is among the conflicts, and the text of the file has the
\* block in its place as a fence: the former marker, the former lines, the middle
\* marker, the current lines and the current marker.
C9_IgnoredBlockRendersFence ==
  \A k \in CallsOfKind("ignored") :
    LET call == solverLog[k]
    IN /\ call.block.status = "CONFLICT"
       /\ BeforeCommit \/ DoneUntouched =>
            TableGet(mergeTable, call.pathname)[call.blockIndex + 1]
              = [call.block EXCEPT !.ignored = TRUE]
       /\ DoneUntouched =>
            /\ call.pathname \in Range(result.conflicts)
            /\ TableGet(result.files, call.pathname)
                 = TextAround(TableGet(mergeTable, call.pathname), call.blockIndex,
                              Fenced(call.block))

\* The result of a run in which a block with current lines was ignored.
C9_Witness ==
  /\ DoneUntouched
  /\ \E k \in CallsOfKind("ignored") :
       /\ solverLog[k].block.values.current # <<>>
       /\ TableGet(mergeTable, solverLog[k].pathname)[solverLog[k].blockIndex + 1].ignored
       /\ solverLog[k].pathname \in Range(result.conflicts)

\* The work item of the k-th solver call.
Asked(k) == [pathname |-> solverLog[k].pathname, index |-> solverLog[k].blockIndex]

\* The number of calls before the k-th whose verdict was not null.
DecidedBefore(k) == Cardinality({j \in 1..(k - 1) : solverLog[j].verdict.kind # "null"})

\* The items are in the order of the pathnames of the table, then of the block index.
InDiscoveryOrder(items, table) ==
  \A i, j \in 1..Len(items) :
    i < j =>
      \/ TableIndex(table, items[i].pathname) < TableIndex(table, items[j].pathname)
      \/ items[i].pathname = items[j].pathname /\ items[i].index < items[j].index

\* The conflicts the loop has still to settle: the one the solver is being asked
\* about, then those on the work list.
WorkList == currentConflict \o remainedConflictedFileDataList

\* A solver call that returned null has just been made.
DeferStep ==
  /\ Len(solverLog') = Len(solverLog) + 1
  /\ solverLog'[Len(solverLog')].verdict.kind = "null"

DiscoveryOrderKept ==
  /\ BeforeCommit => InDiscoveryOrder(totalConflicts, mergeTable)
  /\ \A k \in 1..Len(solverLog) : Asked(k) = totalConflicts[DecidedBefore(k) + 1]
  /\ pc = "solving" =>
       /\ Len(currentConflict) = 1
       /\ WorkList = SubSeq(totalConflicts, DecidedBefore(Len(solverLog) + 1) + 1,
                            Len(totalConflicts))
  /\ \A k \in CallsOfKind("null") :
       IF k < Len(solverLog) THEN Asked(k + 1) = Asked(k)
       ELSE pc = "solving" => currentConflict = <<Asked(k)>>

\* C10: the solver is asked about the conflicts in the order of the pathnames of the
\* merge table and then of the block index; a null verdict leaves the merge table as
\* it is and puts the item back at the head of the work list, so that the next call,
\* which the loop makes at once, is about the same pathname and block index.
C10_DiscoveryOrderAndDeferral ==
  /\ []DiscoveryOrderKept
  /\ [][DeferStep => mergeTable' = mergeTable]_vars

\* The solver deferred the second of at least two conflicts and was asked about it
\* again in the next call.
C10_Witness ==
  /\ Len(totalConflicts) >= 2
  /\ \E k \in CallsOfKind("null") :
       /\ k < Len(solverLog)
       /\ Asked(k) = totalConflicts[2]
       /\ Asked(k + 1) = Asked(k)
       /\ solverLog[k + 1].verdict.kind # "null"

(***************************************************************************)
(* Termination of resolveConflicts. The loop awaits the solver at every    *)
(* turn; SpecLive is the pipeline with a solver that, asked often enough,  *)
(* gives a verdict other than null.                                        *)
(***************************************************************************)
SolverDecides ==
  /\ \E verdict \in Verdicts : verdict.kind # "null" /\ SolveConflict(verdict)
  /\ UNCHANGED libVars

SpecLive == Init /\ [][Next]_vars /\ WF_vars(SolverDecides)

\* Every block that is an open conflict has its item in the list.
ListsEveryOpenConflict(items, table) ==
  \A i \in 1..Len(table) : \A b \in 1..Len(table[i].val) :
    table[i].val[b].status = "CONFLICT" /\ ~table[i].val[b].ignored
      => [pathname |-> table[i].key, index |-> b - 1] \in Range(items)

EveryConflictAsked ==
  \A i \in 1..Len(totalConflicts) :
    \E k \in 1..Len(solverLog) : Asked(k) = totalConflicts[i]

LoopIsOver == pc \in {"runCleanups", "cleaning", "getResult", "done"}

\* A turn of the loop leaves it only with a verdict other than null for the last
\* item; a null verdict keeps the loop where it was, before the same item.
LoopTurn ==
  pc = "solving" =>
    /\ DeferStep =>
         /\ pc' = "solving"
         /\ currentConflict' = currentConflict
         /\ remainedConflictedFileDataList' = remainedConflictedFileDataList
    /\ pc' # "solving" =>
         /\ pc' = "runCleanups"
         /\ ~DeferStep
         /\ WorkList = currentConflict
         /\ WorkList' = <<>>

\* C11: with a solver that ends up giving a verdict other than null for every item,
\* resolveConflicts comes to its end, and by then the solver was asked about every
\* block that was an open conflict when the loop started; a null verdict never ends
\* the loop nor moves it to another item, so a solver that answers null for ever
\* keeps the loop at that item for ever.
C11_ResolveConflictsTerminates ==
  /\ (pc = "solving") ~> (pc = "runCleanups")
  /\ [](pc = "solving" /\ solverLog = <<>>
          => ListsEveryOpenConflict(totalConflicts, mergeTable))
  /\ [](LoopIsOver /\ config.conflictsSolver => EveryConflictAsked)
  /\ [][LoopTurn]_vars

\* The loop is over after the solver deferred one of at least two conflicts.
C11_Witness ==
  /\ pc = "runCleanups"
  /\ Len(totalConflicts) >= 2
  /\ CallsOfKind("null") # {}
  /\ EveryConflictAsked

(***************************************************************************)
(* Properties of the files of the result.                                  *)
(***************************************************************************)
\* The texts the templates that were read hold for a pathname, in reading order.
TextsOf(label, pathname) ==
  LET found == SelectSeq(volume.entities[label],
                         LAMBDA e : ~e.isBinary /\ TextPathname(e) = pathname)
  IN [i \in 1..Len(found) |-> found[i].content]

ContributedTexts(pathname) ==
  Join([i \in 1..Len(TemplateIds) |->
          IF HasPropsItem(TemplateIds[i]) THEN TextsOf(TemplateIds[i], pathname)
          ELSE <<>>])

Overwritten(pathname) ==
  /\ ~Match(pathname, "merge")
  /\ ~Match(pathname, "delete")
  /\ Len(ContributedTexts(pathname)) >= 2

LastText(pathname) == ContributedTexts(pathname)[Len(ContributedTexts(pathname))]

\* C12: a file outside the merge policy that two or more templates hold is emitted
\* with the text of the last of them, whatever that text is, the empty text too.
C12_LastTemplateOverwrites ==
  DoneUntouched =>
    \A pathname \in TextPathnames :
      Overwritten(pathname) =>
        /\ TableHasKey(result.files, pathname)
        /\ TableGet(result.files, pathname) = LastText(pathname)

\* The same for the files whose last text is not empty.
C12_Probe_LastTextNotEmpty ==
  DoneUntouched =>
    \A pathname \in TextPathnames :
      Overwritten(pathname) /\ LastText(pathname) # <<>> =>
        /\ TableHasKey(result.files, pathname)
        /\ TableGet(result.files, pathname) = LastText(pathname)

\* C13: no pathname that matches a delete glob is a key of the files of the result,
\* be the file text or binary, from a template or from a cleanup.
C13_NoDeletedPathnameInFiles ==
  pc = "done" =>
    \A i \in 1..Len(result.files) : ~Match(result.files[i].key, "delete")

\* The same for the text files the templates contributed.
C13_Probe_TextFilesOfTemplates ==
  pc \in {"resolveConflicts", "solving", "runCleanups", "cleaning"} =>
    \A i \in 1..Len(mergeTable) : ~Match(mergeTable[i].key, "delete")

\* C14: when the result is about to be made, no pathname is a key of both the merge
\* table and the binary table.
C14_TablesDisjoint ==
  pc = "getResult" =>
    Range(TableKeys(mergeTable)) \cap Range(TableKeys(binaryTable)) = {}

(***************************************************************************)
(* Properties of queryAllTemplateProps.                                    *)
(***************************************************************************)
\* The questions the configuration holds for a label.
QuestionsOfLabel(label) ==
  IF label = "main" THEN templateConfig.questions
  ELSE templateConfig.extendTemplates[ExtendIdOf(label)].questions

\* The labels getTemplateProps has run for, in the order it did: "main" once it is
\* off the queue, the extends whose id was recorded, and the label of the turn
\* under way once getTemplateProps has returned for it.
DrainedOrder ==
  LET current == currentPendingExtendTemplateLabel
  IN (IF \/ \E i \in 1..Len(pendingTemplateLabels) : pendingTemplateLabels[i] = "main"
         \/ current = "main" /\ pc = "callback"
      THEN <<>> ELSE <<"main">>)
     \o [i \in 1..Len(targetedExtendTemplateIds) |->
           ExtendLabel(targetedExtendTemplateIds[i])]
     \o (IF pc = "getTemplateProps" /\ IsExtendLabel(current) THEN <<current>> ELSE <<>>)

DrainedLabels == Range(DrainedOrder)

CalledFor(label) ==
  \E k \in 1..Len(propsLog) :
    propsLog[k].label = label /\ propsLog[k].questions = QuestionsOfLabel(label)

\* C15: the callback is called for a label with the questions of that label, for
\* "main" the questions of the configuration and for "extend:<id>" those of
\* extendTemplates.<id>, whenever that list is not empty, and with no other list.
C15_CallbackGetsQuestionsOfLabel ==
  /\ \A k \in 1..Len(propsLog) :
       propsLog[k].questions = QuestionsOfLabel(propsLog[k].label)
  /\ config.getTemplateProps =>
       \A label \in DrainedLabels :
         QuestionsOfLabel(label) # <<>> => CalledFor(label)

\* The same for the label "main" alone.
C15_Probe_MainLabel ==
  /\ \A k \in 1..Len(propsLog) :
       propsLog[k].label = "main" => propsLog[k].questions = templateConfig.questions
  /\ config.getTemplateProps /\ "main" \in DrainedLabels
       /\ templateConfig.questions # <<>> => CalledFor("main")

(***************************************************************************)
(* Properties of runCleanups.                                              *)
(***************************************************************************)
AllPathnames == CleanupPathnames \cup TextPathnames

\* A cleanup callback has called one of the functions it is given, or a callback
\* other than the last has returned.
CleanupCall == pc = "cleaning" /\ pc' = "cleaning"

\* The last callback has returned and the tables are installed.
CleanupCommit == pc \in {"runCleanups", "cleaning"} /\ pc' = "getResult"

\* The table holds the entries of the clone other than null, in the clone's order.
InstalledFrom(table, clone) ==
  /\ \A i \in 1..Len(table) : ~table[i].null
  /\ \A i \in 1..Len(clone) :
       IF clone[i].null THEN ~TableHasKey(table, clone[i].key)
       ELSE /\ TableHasKey(table, clone[i].key)
            /\ TableGet(table, clone[i].key) = clone[i].val
  /\ Range(TableKeys(table)) \subseteq Range(TableKeys(clone))

\* C16: whatever the cleanup callbacks add or delete, in any sequence of calls,
\* the tables of the generator stay as they were, and exists, getTextFileContent
\* and getBinaryFileBuffer keep their answers, as long as a callback is running or
\* is still to be called; the tables are installed when the last callback has
\* returned, as the clones without their null entries, and no call changes the
\* clones after that.
C16_CleanupsWorkOnClones ==
  /\ [][CleanupCall =>
          /\ mergeTable' = mergeTable
          /\ binaryTable' = binaryTable
          /\ \A pathname \in AllPathnames :
               /\ exists(pathname)' = exists(pathname)
               /\ getTextFileContent(pathname)' = getTextFileContent(pathname)
               /\ getBinaryFileBuffer(pathname)' = getBinaryFileBuffer(pathname)]_vars
  /\ [][CleanupCommit =>
          /\ pc = "cleaning" => remainedCleanups = <<>>
          /\ InstalledFrom(mergeTable', clonedTables'.mergeTable)
          /\ InstalledFrom(binaryTable', clonedTables'.binaryTable)]_vars
  /\ [][(pc \in {"getResult", "done"}) => UNCHANGED clonedTables]_vars
  /\ [](pc = "getResult" =>
          /\ InstalledFrom(mergeTable, clonedTables.mergeTable)
          /\ InstalledFrom(binaryTable, clonedTables.binaryTable))

\* The second of two callbacks is running, two calls were made, the clone of the
\* merge table holds a deleted entry and an added one, and exists still answers
\* from the merge table.
C16_Witness ==
  /\ pc = "cleaning"
  /\ Len(Cleanups) = 2
  /\ remainedCleanups = <<>>
  /\ cleanupCalls = 2
  /\ \E i \in 1..Len(clonedTables.mergeTable) : clonedTables.mergeTable[i].null
  /\ \E pathname \in AllPathnames :
       TableTruthy(clonedTables.mergeTable, pathname) /\ ~exists(pathname)

\* The entries of the clone for the other pathnames are as they were.
OthersKept(clone, cloneAfter, pathname) ==
  \A i \in 1..Len(clone) :
    clone[i].key # pathname =>
      /\ TableHasKey(cloneAfter, clone[i].key)
      /\ cloneAfter[TableIndex(cloneAfter, clone[i].key)] = clone[i]

\* What addFile(pathname, content) does to the clone of the merge table.
AddFileEffect(pathname, content) ==
  IF TableTruthy(clonedTables.mergeTable, pathname)
  THEN clonedTables' = clonedTables
  ELSE LET blocks == TableGet(clonedTables'.mergeTable, pathname)
       IN /\ TableTruthy(clonedTables'.mergeTable, pathname)
          /\ \A b \in 1..Len(blocks) : blocks[b].status = "OK"
          /\ parseMergeBlocksToText(blocks) = content
          /\ OthersKept(clonedTables.mergeTable, clonedTables'.mergeTable, pathname)
          /\ clonedTables'.binaryTable = clonedTables.binaryTable

AddBinaryFileEffect(pathname, content) ==
  IF TableTruthy(clonedTables.binaryTable, pathname)
  THEN clonedTables' = clonedTables
  ELSE /\ TableTruthy(clonedTables'.binaryTable, pathname)
       /\ TableGet(clonedTables'.binaryTable, pathname) = content
       /\ OthersKept(clonedTables.binaryTable, clonedTables'.binaryTable, pathname)
       /\ clonedTables'.mergeTable = clonedTables.mergeTable

\* C17: addFile changes nothing for a pathname that has an entry in the table being
\* built, and for one that has none, or a deleted one, it stores OK blocks whose text
\* is the text it was given; addBinaryFile does the same with the binary table.
C17_AddFileKeepsOrInserts ==
  /\ [][\A pathname \in CleanupPathnames, content \in CleanupTexts :
          addFile(pathname, content) => AddFileEffect(pathname, content)]_vars
  /\ [][\A pathname \in CleanupPathnames :
          addBinaryFile(pathname, CleanupBuffer)
            => AddBinaryFileEffect(pathname, CleanupBuffer)]_vars

\* The same for a text that ends with a newline.
C17_Probe_TerminatedText ==
  /\ [][\A pathname \in CleanupPathnames :
          addFile(pathname, CleanupText) => AddFileEffect(pathname, CleanupText)]_vars
  /\ [][\A pathname \in CleanupPathnames :
          addBinaryFile(pathname, CleanupBuffer)
            => AddBinaryFileEffect(pathname, CleanupBuffer)]_vars

(***************************************************************************)
(* Further properties of merge.                                            *)
(***************************************************************************)
Merged == libPc \in {"merged", "parsed"} /\ overlayContents # <<>>

\* The merged list holds the baseline lines 0, 1, ... once each and in this order.
BaselineOnceInOrder ==
  BaselineLinesBefore(libMerged, Len(libMerged)) = [i \in 1..Len(libDiffs[1]) |-> i - 1]

\* Every added line of the merged list comes after the baseline line of its anchor
\* and before the next baseline line; for the anchor -1, before every baseline line.
InsertionsFollowAnchors ==
  \A p \in 1..Len(libMerged) :
    libMerged[p].added =>
      LET before == BaselineLinesBefore(libMerged, p)
      IN IF libMerged[p].lineNumber = -1 THEN before = <<>>
         ELSE before # <<>> /\ before[Len(before)] = libMerged[p].lineNumber

SomeAnchorBeforeFirstLine ==
  \E k \in 2..Len(libDiffs) : -1 \in Anchors(libDiffs[k])

\* C18: merge keeps every baseline change once and in baseline order, and puts the
\* insertions of each anchor right after the baseline line of the anchor, those of
\* the anchor -1 before the whole baseline.
C18_MergeKeepsBaselineOrder ==
  Merged => BaselineOnceInOrder /\ InsertionsFollowAnchors

\* The same when no overlay inserts before the first line.
C18_Probe_NoPreFirstAnchor ==
  Merged /\ ~SomeAnchorBeforeFirstLine => BaselineOnceInOrder /\ InsertionsFollowAnchors

\* C19: merge of a baseline that is null or empty is the empty list, whatever the
\* overlays hold.
C19_EmptyBaselineGivesEmpty ==
  libPc = "mergedOnto" /\ libDiffs[1] \in {NullChanges, <<>>} => libMerged = <<>>

\* The same for the null baseline, and for the empty one without overlays.
C19_Probe_NullOrNoOverlay ==
  /\ libPc = "mergedOnto" /\ libDiffs[1] = NullChanges => libMerged = <<>>
  /\ libPc = "mergedOnto" /\ libDiffs[1] = <<>> /\ Len(libDiffs) = 1 => libMerged = <<>>

\* C20: a change of an overlay whose line number is outside the baseline is dropped:
\* the merged list has no added line anchored past the last baseline line, and each
\* of its other lines is a line of the baseline, flagged as removed or not.
C20_OutOfRangeChangesDropped ==
  libPc = "mergedOnto" /\ libDiffs[1] # NullChanges =>
    \A p \in 1..Len(libMerged) :
      IF libMerged[p].added
      THEN libMerged[p].lineNumber \in -1..(Len(libDiffs[1]) - 1)
      ELSE \E i \in 1..Len(libDiffs[1]) :
             [libMerged[p] EXCEPT !.removed = libDiffs[1][i].removed] = libDiffs[1][i]

(***************************************************************************)
(* Further properties of diff.                                             *)
(***************************************************************************)
\* The number of baseline (common or removed) changes among the first n changes.
BaselineCount(changes, n) == Len(BaselineLinesBefore(changes, n))

\* The common and removed changes are numbered 0, 1, ... as they come and spell the
\* baseline text, up to the newline that ends it.
BaselineNumbered(changes, text) ==
  /\ \A p \in 1..Len(changes) :
       ~changes[p].added => changes[p].lineNumber = BaselineCount(changes, p) - 1
  /\ LET kept == SelectSeq(changes, LAMBDA c : ~c.added)
     IN text # <<>> =>
          Join([i \in 1..Len(kept) |-> kept[i].value]) \in {text, text \o <<NL>>}

NonDecreasing(changes) ==
  \A p, q \in 1..Len(changes) : p < q => changes[p].lineNumber <= changes[q].lineNumber

\* C21 as claimed: in diff(a, b) a common or removed change has the index of its
\* baseline line, an added change the index of the baseline line before which it is
\* inserted, and the line numbers never decrease.
C21_AddedNumberedByNextLine ==
  libPc = "diffed" =>
    \A k \in 2..Len(libDiffs) :
      /\ BaselineNumbered(libDiffs[k], originalContent)
      /\ \A p \in 1..Len(libDiffs[k]) :
           libDiffs[k][p].added
             => libDiffs[k][p].lineNumber = BaselineCount(libDiffs[k], p)
      /\ NonDecreasing(libDiffs[k])

\* C21, amended: an added change has the index of the baseline line after which it is
\* inserted, -1 when it is inserted before the first line; the rest as claimed.
C21_AddedNumberedByPreviousLine ==
  libPc = "diffed" =>
    \A k \in 2..Len(libDiffs) :
      /\ BaselineNumbered(libDiffs[k], originalContent)
      /\ \A p \in 1..Len(libDiffs[k]) :
           libDiffs[k][p].added
             => libDiffs[k][p].lineNumber = BaselineCount(libDiffs[k], p) - 1
      /\ NonDecreasing(libDiffs[k])

\* A diff with a removed line, an insertion before the first line and one after a
\* baseline line.
C21_Witness ==
  /\ libPc = "diffed"
  /\ \E k \in 2..Len(libDiffs) :
       /\ \E p \in 1..Len(libDiffs[k]) : libDiffs[k][p].removed
       /\ -1 \in Anchors(libDiffs[k])
       /\ \E a \in Anchors(libDiffs[k]) : a >= 0

(***************************************************************************)
(* Properties of the cache table.                                          *)
(***************************************************************************)
\* The cache table as copyTemplateFileToCacheTable and deleteFiles leave it.
CacheBuilt == pc \in {"deleteFiles", "mergeTemplateFiles"}

\* The text of all the lines of a ChangeList.
TextOfLines(changes) == Join([i \in 1..Len(changes) |-> changes[i].value])

\* C22: for every pathname of the cache table, the first ChangeList is the self-diff
\* of the text of the first template that holds the file, and the ChangeList of each
\* later template is the diff of the text of the lines of the first ChangeList with
\* that template's own text, whatever the other templates hold.
C22_OverlaysDiffedAgainstBaseline ==
  CacheBuilt =>
    \A e \in 1..Len(cacheTable) :
      LET texts == ContributedTexts(cacheTable[e].key)
          lists == cacheTable[e].val
      IN /\ Len(lists) = Len(texts)
         /\ lists[1] = diff(texts[1], Undefined)
         /\ \A k \in 2..Len(lists) : lists[k] = diff(TextOfLines(lists[1]), texts[k])

\* A file that the main template and both extends hold, the second of which changes
\* the baseline.
C22_Witness ==
  /\ CacheBuilt
  /\ \E e \in 1..Len(cacheTable) :
       /\ Len(cacheTable[e].val) = 3
       /\ \E i \in 1..Len(cacheTable[e].val[2]) : cacheTable[e].val[2][i].added

(***************************************************************************)
(* Properties of the order of the templates.                               *)
(***************************************************************************)
\* The labels in the order they were taken from the queue.
\* The texts the drained templates with a props item hold for a pathname, in the
\* order the templates were drained.
TextsInDrainedOrder(pathname) ==
  LET holders == SelectSeq(DrainedOrder,
                           LAMBDA label : HasPropsItem(label) /\ TextsOf(label, pathname) # <<>>)
  IN [i \in 1..Len(holders) |-> TextsOf(holders[i], pathname)[1]]

\* The first is a prefix of the second.
Prefix(s, t) == Len(s) <= Len(t) /\ SubSeq(t, 1, Len(s)) = s

\* A turn of queryAllTemplateProps takes the label at the head of the queue; the
\* labels the callback enqueues go to the back and the props item to the end of
\* the list; an extend label is recorded as activated when getTemplateProps has
\* returned for it.
FifoTurn ==
  /\ pc \in {"queryAllTemplateProps", "getTemplateProps"} =>
       /\ pendingTemplateLabels # <<>> =>
            /\ pendingTemplateLabels' = Tail(pendingTemplateLabels)
            /\ currentPendingExtendTemplateLabel' = Head(pendingTemplateLabels)
       /\ Prefix(templatePropsList, templatePropsList')
  /\ pc = "callback" =>
       /\ Prefix(pendingTemplateLabels, pendingTemplateLabels')
       /\ Len(templatePropsList') = Len(templatePropsList) + 1
       /\ Prefix(templatePropsList, templatePropsList')
       /\ templatePropsList'[Len(templatePropsList')].label
            = currentPendingExtendTemplateLabel
       /\ targetedExtendTemplateIds' = targetedExtendTemplateIds
  /\ pc = "getTemplateProps" =>
       targetedExtendTemplateIds' =
         IF currentPendingExtendTemplateLabel = "main" THEN targetedExtendTemplateIds
         ELSE Append(targetedExtendTemplateIds,
                     ExtendIdOf(currentPendingExtendTemplateLabel))

TemplateOrderKept ==
  /\ \A i \in 1..Len(templatePropsList) : templatePropsList[i].label = "main" => i = 1
  /\ config.getTemplateProps =>
       [i \in 1..Len(templatePropsList) |-> templatePropsList[i].label] = DrainedOrder
  /\ CacheBuilt =>
       \A e \in 1..Len(cacheTable) :
         LET texts == TextsInDrainedOrder(cacheTable[e].key)
             lists == cacheTable[e].val
         IN /\ Len(lists) = Len(texts)
            /\ lists[1] = diff(texts[1], Undefined)
            /\ \A k \in 2..Len(lists) : lists[k] = diff(TextOfLines(lists[1]), texts[k])

\* C23: the labels are drained first in first out from "main"; "main" is the first
\* item of the props list, the extends are recorded and visited in the order they
\* were enqueued, and the ChangeLists of a pathname are in that order, the baseline
\* being the first template in it that holds the file.
C23_TemplatesInEnqueueOrder ==
  /\ []TemplateOrderKept
  /\ [][FifoTurn]_vars

\* The extend e2 was enqueued before e1, and a file that the main template does not
\* hold has the text of e2 as its baseline and the list of e1 after it.
C23_Witness ==
  /\ CacheBuilt
  /\ targetedExtendTemplateIds = <<"e2", "e1">>
  /\ TextsOf("main", "p") = <<>>
  /\ TableHasKey(cacheTable, "p")
  /\ Len(TableGet(cacheTable, "p")) = 2
  /\ TableGet(cacheTable, "p")[1] = diff(TextsOf(ExtendLabel("e2"), "p")[1], Undefined)

(***************************************************************************)
(* Properties of the blocks of the merge table.                            *)
(***************************************************************************)
Alternating(blocks) ==
  \A i \in 1..(Len(blocks) - 1) : blocks[i].status # blocks[i + 1].status

\* C24: no two adjacent blocks of an entry of the merge table have the same status,
\* from mergeTemplateFiles to the result.
C24_AdjacentBlocksDiffer ==
  \A e \in 1..Len(mergeTable) : Alternating(mergeTable[e].val)

\* The same as long as the solver has returned no block.
C24_Probe_NoBlockReturned ==
  CallsOfKind("block") = {} =>
    \A e \in 1..Len(mergeTable) : Alternating(mergeTable[e].val)


(***************************************************************************)
(* The data the templating engine is given.                                *)
(***************************************************************************)
\* The render calls made for the template files of extend templates.
ExtendRenders == {k \in 1..Len(renderLog) : IsExtendLabel(renderLog[k].label)}

\* C25: when a template file of an extend template is rendered, the data given to
\* the templating engine is exactly the props of the main template merged with
\* the props of that extend template, whatever was rendered before.
C25_RenderDataIsMainAndOwnProps ==
  \A k \in ExtendRenders :
    renderLog[k].data = PropsOf("main") \cup PropsOf(renderLog[k].label)

\* What the code gives instead: the main props item itself, with the props of
\* every template rendered so far copied into it.
C25_Probe_DataIsTheMainItem ==
  \A k \in 1..Len(renderLog) :
    renderLog[k].data =
      ItemKeys \cup UNION {PropsOf(renderLog[j].label) : j \in 1..k}


(***************************************************************************)
(* What merge does to its arguments.                                       *)
(***************************************************************************)
\* C26: merge leaves its arguments alone: over mergeTemplateFiles every ChangeList
\* of CacheTable, the baseline at position 0 included, keeps the value,
\* lineNumber, added and removed flags of each of its changes.
C26_MergeKeepsItsArguments ==
  [][mergeTemplateFiles => cacheTable' = cacheTable]_vars

\* What is kept: the keys, the number of ChangeLists and of changes, every overlay,
\* and everything of a baseline change but its removed flag, which is only ever
\* raised.
C26_Probe_OnlyRemovedIsRaised ==
  [][mergeTemplateFiles =>
       /\ Len(cacheTable') = Len(cacheTable)
       /\ \A e \in 1..Len(cacheTable) :
            LET before == cacheTable[e].val
                after == cacheTable'[e].val
            IN /\ cacheTable'[e].key = cacheTable[e].key
               /\ Len(after) = Len(before)
               /\ \A k \in 2..Len(before) : after[k] = before[k]
               /\ before # <<>> =>
                    /\ Len(after[1]) = Len(before[1])
                    /\ \A i \in 1..Len(before[1]) :
                         /\ [after[1][i] EXCEPT !.removed = before[1][i].removed]
                              = before[1][i]
                         /\ before[1][i].removed => after[1][i].removed]_vars


(***************************************************************************)
(* What is left of the conflicts when the work list is drained.            *)
(***************************************************************************)
\* The conflict is still to be settled: the solver is being asked about it or it
\* is on the work list.
Queued(item) == \E j \in 1..Len(WorkList) : WorkList[j] = item

\* The block the conflict was found at is ignored or an OK block now.
Settled(item) ==
  LET block == TableGet(mergeTable, item.pathname)[item.index + 1]
  IN block.ignored \/ block.status = "OK"

EveryConflictQueuedOrSettled ==
  \A i \in 1..Len(totalConflicts) : Queued(totalConflicts[i]) \/ Settled(totalConflicts[i])

\* C27: with a conflictsSolver, a conflict leaves the work list only ignored or
\* replaced by an OK block, whatever the solver returns; so when the loop is over
\* every conflict that was pending is ignored or OK.
C27_NoConflictLeftOpen ==
  config.conflictsSolver /\ BeforeCommit => EveryConflictQueuedOrSettled

\* As long as the solver has returned null, 'ignored' or a block, it is so.
C27_Probe_NoEmptyVerdict ==
  config.conflictsSolver /\ BeforeCommit /\ CallsOfKind("empty") = {}
    => EveryConflictQueuedOrSettled


(***************************************************************************)
(* The files of the main template.                                         *)
(***************************************************************************)
\* The text files of the main template that no delete pattern matches.
MainTextPathnames ==
  {TextPathname(volume.entities["main"][i]) :
     i \in {j \in 1..Len(volume.entities["main"]) :
              /\ ~volume.entities["main"][j].isBinary
              /\ ~Match(TextPathname(volume.entities["main"][j]), "delete")}}

MainFilesEmitted == \A pathname \in MainTextPathnames : TableHasKey(result.files, pathname)

\* C28: the text files of the main template are among the emitted files, with or
\* without a getTemplateProps callback and with or without questions.
C28_MainFilesAreEmitted ==
  DoneUntouched => MainFilesEmitted

\* With a callback they are, asked or not.
C28_Probe_WithCallback ==
  DoneUntouched /\ config.getTemplateProps => MainFilesEmitted


(***************************************************************************)
(* The frame of a solver verdict.                                          *)
(***************************************************************************)
\* A step of the loop of resolveConflicts: one more call is logged.
VerdictStep == pc = "solving" /\ Len(solverLog') = Len(solverLog) + 1

BlockAt(table, item) == TableGet(table, item.pathname)[item.index + 1]

\* C29: a verdict changes at most the block it was asked about: the files, the
\* number of blocks of each, every other block of the file and every other file
\* stay as they are, and every item still queued designates the block it did.
C29_VerdictChangesOneBlock ==
  [][VerdictStep =>
       LET call == solverLog'[Len(solverLog')]
       IN /\ Len(mergeTable') = Len(mergeTable)
          /\ \A e \in 1..Len(mergeTable) :
               /\ mergeTable'[e].key = mergeTable[e].key
               /\ mergeTable'[e].null = mergeTable[e].null
               /\ Len(mergeTable'[e].val) = Len(mergeTable[e].val)
               /\ \A b \in 1..Len(mergeTable[e].val) :
                    (mergeTable[e].key # call.pathname \/ b # call.blockIndex + 1)
                      => mergeTable'[e].val[b] = mergeTable[e].val[b]
          /\ \A j \in 1..Len(WorkList') :
               LET item == WorkList'[j]
               IN /\ item.index < Len(TableGet(mergeTable', item.pathname))
                  /\ BlockAt(mergeTable', item) = BlockAt(mergeTable, item)
                  /\ BlockAt(mergeTable', item).status = "CONFLICT"]_vars

\* A block was returned for a conflict while a later conflict of the same file is
\* still queued.
C29_Witness ==
  /\ pc = "solving"
  /\ \E k \in CallsOfKind("block") :
       \E j \in 1..Len(WorkList) :
         /\ WorkList[j].pathname = solverLog[k].pathname
         /\ WorkList[j].index > solverLog[k].blockIndex

====
